---- MODULE Spec2Model ----
(***************************************************************************)
(* DOM tree builder of browser_use/dom/dom_optimized: DOMService builds a  *)
(* unified tree from raw CDP nodes (service.py), DOMEnricher decorates it  *)
(* from a layout snapshot (utils/enrichment.py), views.py is the data      *)
(* model.  Python objects live in a heap (a sequence of node records,      *)
(* addressed by position) so that parent pointers and in-place mutation    *)
(* are what they are in the program.  Strings that the code inspects       *)
(* character by character (node values) are sequences of one-character     *)
(* strings.                                                                *)
(***************************************************************************)
EXTENDS Integers, Sequences, FiniteSets, TLC

VARIABLES
    page,                   \* the raw document the browser serves for the page
    pc,                     \* position of the build_dom_tree coroutine
    processed_frames,       \* DOMService.processed_frames
    processed_iframe_nodes, \* DOMService.processed_iframe_nodes
    sessions,               \* DOMService.sessions (frame url -> session)
    session_frame_urls,     \* DOMService.session_frame_urls (session -> url)
    iframe_depth,           \* DOMService.iframe_depth
    heap,                   \* the DOMNode objects allocated by the build
    dom_tree,               \* DOMService.dom_tree: <<>> or <<root object>>
    log,                    \* what the current build has logged so far
    outcome,                \* what the last build_dom_tree call did
    builds,                 \* number of build_dom_tree calls started
    snapshot,               \* <<>> or <<the last snapshot answer decoded>>
    passes,                 \* enrich_dom_tree calls made on dom_tree again
    self_page,              \* DOMService.page: the document that page shows
    tree_page,              \* <<>> or <<the document dom_tree was built from>>
    fetched,                \* what get_dom_tree last did on the current page
    suspended,              \* <<>> or <<the traversal waiting inside wait_for>>
    llm,                    \* <<>> or <<what the last translate_*_to_llm gave>>
    co                      \* frames of overlapping build_dom_tree coroutines

vars == <<page, pc, processed_frames, processed_iframe_nodes, sessions,
          session_frame_urls, iframe_depth, heap, dom_tree, log, outcome,
          builds, snapshot, passes, self_page, tree_page, fetched, suspended,
          llm, co>>

\* the state that a lone build_dom_tree call or enrichment pass never touches
beyond == <<self_page, tree_page, fetched, suspended, llm, co>>

(***************************************************************************)
(* Bounds.                                                                 *)
(***************************************************************************)
MaxBody == 2        \* number of nodes under <html> in a generated page
MaxBuilds == 2      \* build_dom_tree calls in one behaviour
MaxPasses == 2      \* enrich_dom_tree calls repeated on one built tree

(***************************************************************************)
(* Program constants.                                                      *)
(***************************************************************************)
ELEMENT == 1
TEXT == 3
COMMENT == 8
DOCUMENT == 9
DOCTYPE == 10
DOCUMENT_FRAGMENT == 11
NodeType == {ELEMENT, TEXT, COMMENT, DOCUMENT, DOCTYPE, DOCUMENT_FRAGMENT}

max_iframe_depth == 3

\* dict.get(key) on a record without the key
None == -1
\* a string-valued key that the record does not carry
Absent == "<absent>"

MainSession == [frame |-> "<page>", serial |-> 0]

(***************************************************************************)
(* str.strip() and str.lower().                                            *)
(***************************************************************************)
Whitespace == {" ", "\n", "\t"}

RECURSIVE lstrip(_)
lstrip(s) ==
    IF s = <<>> THEN <<>>
    ELSE IF Head(s) \in Whitespace THEN lstrip(Tail(s)) ELSE s

RECURSIVE rstrip(_)
rstrip(s) ==
    IF s = <<>> THEN <<>>
    ELSE IF s[Len(s)] \in Whitespace THEN rstrip(SubSeq(s, 1, Len(s) - 1))
    ELSE s

strip(s) == rstrip(lstrip(s))

lower(name) ==
    CASE name = "HTML" -> "html"
      [] name = "BODY" -> "body"
      [] name = "DIV" -> "div"
      [] name = "SPAN" -> "span"
      [] name = "P" -> "p"
      [] name = "IFRAME" -> "iframe"
      [] name = "iFrame" -> "iframe"
      [] name = "A" -> "a"
      [] name = "BUTTON" -> "button"
      [] name = "INPUT" -> "input"
      [] OTHER -> name

(***************************************************************************)
(* Raw CDP nodes (the dict returned by DOM.getDocument).  An optional      *)
(* nested record is a sequence of length 0 or 1.                           *)
(***************************************************************************)
Raw(nid, bid, type, name) ==
    [nodeId |-> nid, backendNodeId |-> bid, nodeType |-> type,
     nodeName |-> name, nodeValue |-> <<>>, attributes |-> <<>>,
     children |-> <<>>, shadowRoots |-> <<>>, contentDocument |-> <<>>,
     documentURL |-> Absent]

RawText(id, value) ==
    [Raw(100 + id, id, TEXT, "#text") EXCEPT !.nodeValue = value]

RawElem(id, name, attrs, kids) ==
    [Raw(100 + id, id, ELEMENT, name) EXCEPT !.attributes = attrs,
                                             !.children = kids]

RawDoc(id, url, kids) ==
    [Raw(100 + id, id, DOCUMENT, "#document") EXCEPT !.documentURL = url,
                                                     !.children = kids]

RawIframe(id, src, content) ==
    [RawElem(id, "IFRAME", <<"src", src>>, <<>>) EXCEPT
        !.contentDocument = content]

RawHtml(id, kids) == RawElem(id, "HTML", <<>>, kids)

(***************************************************************************)
(* The browser.  MainURL is page.url; PageFrames is page.frames, the main  *)
(* frame first; FrameDoc is what DOM.getDocument answers on a session      *)
(* opened for that frame.  Backend ids are scoped to a frame, so the       *)
(* documents of different frames reuse the same small numbers.             *)
(***************************************************************************)
MainURL == "main"

ChainDoc(url, next) ==
    RawDoc(1, url, <<RawHtml(2, <<RawText(3, <<"f">>),
                                  RawElem(40, "DIV", <<>>, <<>>),
                                  RawIframe(4, next, <<>>)>>)>>)

LeafDoc(url) == RawDoc(1, url, <<RawHtml(2, <<RawText(3, <<"f">>)>>)>>)

FrameDoc(url) ==
    CASE url = "A" -> ChainDoc("A", "B")
      [] url = "B" -> ChainDoc("B", "C")
      [] url = "C" -> ChainDoc("C", "D")
      [] url = "D" -> ChainDoc("D", "E")
      [] url = "loop" -> ChainDoc("loop", "loop")
      [] url = MainURL -> page
      [] OTHER -> LeafDoc(url)

PageFrames == <<MainURL, "A", "B", "C", "D", "E", "loop", "slow", "hang",
                "noroot">>

\* how the browser answers context.new_cdp_session(frame)
SessionOpenAnswer(url) == IF url = "slow" THEN "timeout" ELSE "ok"

\* how the browser answers DOM.getDocument on a frame session
FrameDocAnswer(url) ==
    CASE url = "hang" -> "timeout"
      [] url = "noroot" -> "noroot"
      [] OTHER -> "ok"

(***************************************************************************)
(* Generated pages: a document node, an <html> element and up to MaxBody   *)
(* nodes drawn from Pool under it; DocVariants vary the children of the    *)
(* document node itself.                                                   *)
(***************************************************************************)
InlineDoc(id, kids) == RawDoc(id, "inl", <<RawHtml(id + 1, kids)>>)

InlineChain4 ==
    RawIframe(60, "c1", <<InlineDoc(61, <<
      RawIframe(63, "c2", <<InlineDoc(64, <<
        RawIframe(66, "c3", <<InlineDoc(67, <<
          RawIframe(69, "c4", <<InlineDoc(70, <<
            RawText(72, <<"z">>)>>)>>)>>)>>)>>)>>)>>)>>)

Pool ==
    { RawText(10, <<"a">>),
      RawText(11, <<" ">>),
      RawText(12, <<" ", "b", " ">>),
      RawElem(20, "DIV", <<"id", "d", "odd">>,
              <<RawText(21, <<"c">>), RawElem(22, "SPAN", <<>>, <<>>),
                RawText(23, <<"d", " ">>)>>),
      [RawElem(24, "DIV", <<>>, <<>>) EXCEPT !.nodeId = None],
      [RawElem(25, "P", <<>>, <<RawText(26, <<"e">>)>>) EXCEPT
          !.backendNodeId = None],
      Raw(127, 27, COMMENT, "#comment"),
      Raw(128, 28, DOCUMENT_FRAGMENT, "#document-fragment"),
      Raw(129, 29, 7, ""),
      [RawElem(30, "DIV", <<>>, <<RawText(34, <<"h">>)>>) EXCEPT
          !.shadowRoots =
              <<[Raw(131, 31, DOCUMENT_FRAGMENT, "#document-fragment")
                   EXCEPT !.children = <<RawText(32, <<"s">>),
                                         RawElem(33, "SPAN", <<>>, <<>>)>>]>>],
      [RawElem(35, "DIV", <<>>, <<>>) EXCEPT
          !.shadowRoots = <<RawElem(36, "SPAN", <<>>, <<>>)>>],
      RawIframe(40, "A", <<>>),
      RawIframe(41, MainURL, <<>>),
      RawIframe(42, "", <<>>),
      RawIframe(45, "gone", <<>>),
      RawIframe(46, "A", <<>>),
      RawElem(47, "DIV", <<>>, <<RawIframe(48, "B", <<>>),
                                 RawIframe(49, "gone", <<>>)>>),
      RawIframe(50, "A", <<InlineDoc(51, <<RawText(53, <<"i">>)>>)>>),
      RawIframe(54, "x", <<InlineDoc(55, <<
          [RawElem(57, "P", <<>>, <<>>) EXCEPT !.nodeId = None],
          RawText(58, <<"j">>)>>)>>),
      InlineChain4 }

RECURSIVE SeqsUpTo(_, _)
SeqsUpTo(S, n) ==
    IF n = 0 THEN {<<>>}
    ELSE LET shorter == SeqsUpTo(S, n - 1)
         IN shorter \cup {Append(q, x) : q \in shorter, x \in S}

MainDoc(kids) == RawDoc(1, MainURL, kids)

StdBody == <<RawText(10, <<"a">>), RawIframe(40, "A", <<>>)>>

DocVariants ==
    { <<Raw(105, 5, DOCTYPE, "html"), RawHtml(2, StdBody)>>,
      <<RawText(6, <<"t">>), RawHtml(2, StdBody)>>,
      <<RawText(6, <<" ">>), RawHtml(2, StdBody)>>,
      <<Raw(107, 7, COMMENT, "#comment"), RawHtml(2, StdBody),
        RawElem(8, "svg", <<>>, <<>>)>>,
      <<[RawHtml(2, StdBody) EXCEPT !.backendNodeId = None],
        RawElem(8, "svg", <<>>, <<>>)>>,
      <<Raw(105, 5, DOCTYPE, "html")>>,
      <<>> }

\* the nodes that generated pages combine with each other
CorePool ==
    { RawText(10, <<"a">>),
      RawText(11, <<" ">>),
      [RawElem(25, "P", <<>>, <<RawText(26, <<"e">>)>>) EXCEPT
          !.backendNodeId = None],
      RawIframe(40, "A", <<>>),
      RawIframe(46, "A", <<>>),
      RawIframe(50, "A", <<InlineDoc(51, <<RawText(53, <<"i">>)>>)>>) }

Pages ==
    {MainDoc(<<RawHtml(2, body)>>) :
        body \in SeqsUpTo(Pool, 1) \cup SeqsUpTo(CorePool, MaxBody)}
    \cup {MainDoc(kids) : kids \in DocVariants}
    \cup { [MainDoc(<<RawHtml(2, StdBody)>>) EXCEPT !.nodeId = None],
           [MainDoc(<<RawHtml(2, StdBody)>>) EXCEPT !.documentURL = Absent] }

(***************************************************************************)
(* Data model (views.py).  A node object is a record in the heap; a        *)
(* reference to it is its position; parent = 0 is the unset pointer.       *)
(***************************************************************************)
DictPut(d, k, v) == [x \in DOMAIN d \cup {k} |-> IF x = k THEN v ELSE d[x]]

DictGet(d, k, default) == IF k \in DOMAIN d THEN d[k] ELSE default

DOMElementNode(node_id, backend_node_id, frame_url, tag, attributes) ==
    [kind |-> "element", node_id |-> node_id,
     backend_node_id |-> backend_node_id, frame_url |-> frame_url,
     parent |-> 0, tag |-> lower(tag), attributes |-> attributes,
     text_content |-> <<>>, children |-> <<>>,
     computed_styles |-> <<>>, offsetRects |-> <<>>, bounding_box |-> <<>>,
     paint_order |-> <<>>, is_visible |-> <<>>, is_interactive |-> <<>>]

DOMTextNode(node_id, backend_node_id, frame_url, text) ==
    [kind |-> "text", node_id |-> node_id,
     backend_node_id |-> backend_node_id, frame_url |-> frame_url,
     parent |-> 0, text |-> text]

\* append_child inserting at the front of the list
append_child_unparented(st, self, node) ==
    [st EXCEPT !.heap = [@ EXCEPT ![self].children = Append(@, node)]]

append_child_front(st, self, node) ==
    [st EXCEPT !.heap = [@ EXCEPT ![node].parent = self,
                                  ![self].children = <<node>> \o @]]

\* element.append_child(node), both given as references into st.heap
append_child(st, self, node) ==
    [st EXCEPT !.heap = [@ EXCEPT ![node].parent = self,
                                  ![self].children = Append(@, node)]]

\* a logger.warning or logger.error call: at names the call site, node and
\* url the node id and frame url of its subject
Log(st, level, at, node, url) ==
    [st EXCEPT !.log = Append(@, [level |-> level, at |-> at,
                                  node |-> node, url |-> url])]

Alloc(st, obj) == [st EXCEPT !.heap = Append(@, obj)]

\* the attribute dict built from the flat name/value list
RECURSIVE decode_attributes(_, _, _)
decode_attributes(attrs_list, i, attributes) ==
    IF i > Len(attrs_list) THEN attributes
    ELSE IF i + 1 <= Len(attrs_list)
         THEN decode_attributes(attrs_list, i + 2,
                  DictPut(attributes, attrs_list[i], attrs_list[i + 1]))
         ELSE decode_attributes(attrs_list, i + 2, attributes)

(***************************************************************************)
(* DOMElementNode.get_session_id (views.py): the frame of page.frames      *)
(* whose url equals the element's frame_url, and a new session for it.     *)
(* Answers: raised (the 3 s wait fired), session <<>> (no matching frame), *)
(* or a fresh session.                                                     *)
(***************************************************************************)
get_session_id(st, element) ==
    LET frame_url == st.heap[element].frame_url
        matching == {i \in 1..Len(PageFrames) : PageFrames[i] = frame_url}
    IN  IF matching = {}
        THEN [raised |-> FALSE, session |-> <<>>]
        ELSE IF SessionOpenAnswer(frame_url) = "timeout"
        THEN [raised |-> TRUE, session |-> <<>>]
        ELSE [raised |-> FALSE,
              session |-> <<[frame |-> frame_url,
                             serial |-> Cardinality(DOMAIN
                                 st.session_frame_urls)]>>]

\* get_session bound to the method that views.py defines
get_session_resolved(st, element) == get_session_id(st, element)

(***************************************************************************)
(* iframe_element.get_session(page), as service.py and enrichment.py call  *)
(* it.  DOMElementNode defines get_session_id and no get_session, so the   *)
(* attribute lookup raises AttributeError before anything is awaited.      *)
(***************************************************************************)
get_session(st, element) == [raised |-> TRUE, session |-> <<>>]

(***************************************************************************)
(* Tree construction (service.py).  Every operator takes the service and   *)
(* heap state st and returns the state after the call together with the    *)
(* call's value; node is <<>> for None and <<reference>> otherwise.        *)
(***************************************************************************)
RECURSIVE _traverse_node_recursive(_, _, _)
RECURSIVE traverse_document_children(_, _, _)
RECURSIVE traverse_children(_, _, _, _)
RECURSIVE traverse_shadow_children(_, _, _, _)
RECURSIVE traverse_shadow_roots(_, _, _, _)
RECURSIVE _process_iframe_content(_, _)
RECURSIVE _process_iframe_with_playwright_cdp(_, _)

\* the DOCUMENT branch: the first child whose traversal gives a node
traverse_document_children(st, children, frame_url) ==
    IF children = <<>> THEN [st |-> st, node |-> <<>>]
    ELSE LET result == _traverse_node_recursive(st, Head(children), frame_url)
         IN  IF result.node # <<>> THEN result
             ELSE traverse_document_children(result.st, Tail(children),
                                             frame_url)

\* the loop over cdp_node['children'] of an element
traverse_children(st, children, frame_url, element) ==
    IF children = <<>> THEN st
    ELSE LET r == _traverse_node_recursive(st, Head(children), frame_url)
             appended ==
                 IF r.node = <<>> THEN r.st
                 ELSE LET s1 == append_child(r.st, element, r.node[1])
                          child == s1.heap[r.node[1]]
                      IN  IF child.kind = "text"
                          THEN [s1 EXCEPT !.heap[element].text_content =
                                   IF @ # <<>> THEN @ \o <<" ">> \o child.text
                                   ELSE child.text]
                          ELSE s1
         IN  traverse_children(appended, Tail(children), frame_url, element)

\* the loop over the children of one DOCUMENT_FRAGMENT shadow root
traverse_shadow_children(st, shadow_children, frame_url, element) ==
    IF shadow_children = <<>> THEN st
    ELSE LET r == _traverse_node_recursive(st, Head(shadow_children),
                                           frame_url)
             appended == IF r.node = <<>> THEN r.st
                         ELSE append_child(r.st, element, r.node[1])
         IN  traverse_shadow_children(appended, Tail(shadow_children),
                                      frame_url, element)

\* the loop over cdp_node['shadowRoots']
traverse_shadow_roots(st, shadow_roots, frame_url, element) ==
    IF shadow_roots = <<>> THEN st
    ELSE LET shadow_root == Head(shadow_roots)
             done ==
                 IF shadow_root.nodeType = DOCUMENT_FRAGMENT
                 THEN traverse_shadow_children(st, shadow_root.children,
                                               frame_url, element)
                 ELSE LET r == _traverse_node_recursive(st, shadow_root,
                                                        frame_url)
                      IN  IF r.node = <<>> THEN r.st
                          ELSE append_child(r.st, element, r.node[1])
         IN  traverse_shadow_roots(done, Tail(shadow_roots), frame_url,
                                   element)

\* traverse_raises without the backendNodeId check
traverse_raises_unchecked_backend(cdp_node) ==
    \/ cdp_node.nodeId = None
    \/ cdp_node.nodeType \notin NodeType

\* the ValueErrors raised on the node itself (no nodeId, no backendNodeId,
\* NodeType(...) of a number that is not a member), all before anything
\* is changed
traverse_raises(cdp_node) ==
    \/ cdp_node.nodeId = None
    \/ cdp_node.backendNodeId = None
    \/ cdp_node.nodeType \notin NodeType

\* "except Exception as e: logger.error(...); return None"
traverse_caught(st, cdp_node, frame_url) ==
    [st |-> Log(st, "error",
                CASE cdp_node.nodeId = None -> "traverse: no node_id"
                  [] cdp_node.backendNodeId = None ->
                         "traverse: no backendNodeId"
                  [] cdp_node.nodeType \notin NodeType ->
                         "traverse: not a NodeType"
                  [] OTHER -> "traverse: append_child",
                cdp_node.nodeId, frame_url),
     node |-> <<>>]

\* "if iframe_content: element.append_child(iframe_content)" and
\* "if child_node: element.append_child(child_node)"; raised tells whether
\* the statement raises
\* append_child called with whatever the traversal returned
append_embedded_unguarded(r, element) ==
    IF r.node = <<>> THEN [st |-> r.st, raised |-> TRUE]
    ELSE [st |-> append_child(r.st, element, r.node[1]), raised |-> FALSE]

append_embedded(r, element) ==
    [st |-> IF r.node = <<>> THEN r.st
            ELSE append_child(r.st, element, r.node[1]),
     raised |-> FALSE]

\* the "if element.tag == 'iframe'" block
handle_iframe(st, cdp_node, frame_url, element) ==
    IF cdp_node.backendNodeId \in st.processed_iframe_nodes
    THEN [st |-> st, raised |-> FALSE]
    ELSE LET s1 == [st EXCEPT !.processed_iframe_nodes =
                        @ \cup {cdp_node.backendNodeId}]
         IN  IF cdp_node.contentDocument # <<>>
             THEN append_embedded(
                      _traverse_node_recursive(s1,
                          cdp_node.contentDocument[1], frame_url),
                      element)
             ELSE LET src == DictGet(s1.heap[element].attributes, "src", "")
                      s2 == [s1 EXCEPT !.heap[element].frame_url = src]
                  IN  append_embedded(_process_iframe_content(s2, element),
                                      element)

\* the ELEMENT branch
traverse_element(st, cdp_node, frame_url) ==
    LET attributes == decode_attributes(cdp_node.attributes, 1, <<>>)
        element == Len(st.heap) + 1
        s1 == Alloc(st, DOMElementNode(cdp_node.nodeId,
                            cdp_node.backendNodeId, frame_url,
                            cdp_node.nodeName, attributes))
        s2 == traverse_children(s1, cdp_node.children, frame_url, element)
        s3 == traverse_shadow_roots(s2, cdp_node.shadowRoots, frame_url,
                                    element)
        s4 == IF s3.heap[element].tag = "iframe"
              THEN handle_iframe(s3, cdp_node, frame_url, element)
              ELSE [st |-> s3, raised |-> FALSE]
    IN  IF s4.raised THEN traverse_caught(s4.st, cdp_node, frame_url)
        ELSE [st |-> s4.st, node |-> <<element>>]

\* the TEXT branch without the test of the stripped value
traverse_text_unstripped(st, cdp_node, frame_url) ==
    IF cdp_node.nodeValue # <<>>
    THEN [st |-> Alloc(st, DOMTextNode(cdp_node.nodeId,
                               cdp_node.backendNodeId, frame_url,
                               strip(cdp_node.nodeValue))),
          node |-> <<Len(st.heap) + 1>>]
    ELSE [st |-> st, node |-> <<>>]

\* the TEXT branch
traverse_text(st, cdp_node, frame_url) ==
    IF cdp_node.nodeValue # <<>> /\ strip(cdp_node.nodeValue) # <<>>
    THEN [st |-> Alloc(st, DOMTextNode(cdp_node.nodeId,
                               cdp_node.backendNodeId, frame_url,
                               strip(cdp_node.nodeValue))),
          node |-> <<Len(st.heap) + 1>>]
    ELSE [st |-> st, node |-> <<>>]

_traverse_node_recursive(st, cdp_node, frame_url) ==
    IF traverse_raises(cdp_node)
    THEN traverse_caught(st, cdp_node, frame_url)
    ELSE CASE cdp_node.nodeType = DOCUMENT ->
                  traverse_document_children(st, cdp_node.children, frame_url)
           [] cdp_node.nodeType = DOCTYPE -> [st |-> st, node |-> <<>>]
           [] cdp_node.nodeType = ELEMENT ->
                  traverse_element(st, cdp_node, frame_url)
           [] cdp_node.nodeType = DOCUMENT_FRAGMENT ->
                  [st |-> Log(st, "error", "fragment", cdp_node.nodeId,
                              frame_url),
                   node |-> <<>>]
           [] cdp_node.nodeType = TEXT ->
                  traverse_text(st, cdp_node, frame_url)
           [] cdp_node.nodeType = COMMENT -> [st |-> st, node |-> <<>>]

\* _process_iframe_content whose finally clause only runs on success
process_iframe_content_no_finally(st, iframe_element) ==
    LET frame_url == st.heap[iframe_element].frame_url
        node_id == st.heap[iframe_element].node_id
    IN  IF st.iframe_depth >= max_iframe_depth
        THEN [st |-> Log(st, "warning", "depth", node_id, frame_url),
              node |-> <<>>]
        ELSE IF frame_url = "" \/ frame_url \in st.processed_frames
        THEN [st |-> st, node |-> <<>>]
        ELSE LET s1 == [st EXCEPT !.processed_frames = @ \cup {frame_url},
                                  !.iframe_depth = @ + 1,
                                  !.active = @ + 1]
                 s2 == [s1 EXCEPT !.windows = Append(@, [s1 EXCEPT !.windows = <<>>])]
                 r == _process_iframe_with_playwright_cdp(s2, iframe_element)
             IN  [st |-> [r.st EXCEPT !.iframe_depth =
                                          IF r.node = <<>> THEN @ ELSE @ - 1,
                                      !.active = @ - 1],
                  node |-> r.node]

\* the service as a coroutine leaves it when it is suspended
Held(st) == [st EXCEPT !.windows = <<>>]

_process_iframe_content(st, iframe_element) ==
    LET frame_url == st.heap[iframe_element].frame_url
        node_id == st.heap[iframe_element].node_id
    IN  IF st.iframe_depth >= max_iframe_depth
        THEN [st |-> Log(st, "warning", "depth", node_id, frame_url),
              node |-> <<>>]
        ELSE IF frame_url = "" \/ frame_url \in st.processed_frames
        THEN [st |-> st, node |-> <<>>]
        ELSE LET s1 == [st EXCEPT !.processed_frames = @ \cup {frame_url},
                                  !.iframe_depth = @ + 1,
                                  !.active = @ + 1]
                 \* asyncio.wait_for hands the coroutine to a task of its own
                 \* and this call waits for it
                 s2 == [s1 EXCEPT !.windows = Append(@, Held(s1))]
                 r == _process_iframe_with_playwright_cdp(s2, iframe_element)
                 \* finally: self.iframe_depth -= 1
             IN  [st |-> [r.st EXCEPT !.iframe_depth = @ - 1,
                                      !.active = @ - 1],
                  node |-> r.node]

\* the body of _process_iframe_with_playwright_cdp, given the outcome got of
\* its first statement
process_iframe_session(st, iframe_element, got) ==
    LET frame_url == st.heap[iframe_element].frame_url
        node_id == st.heap[iframe_element].node_id
        failed == [st |-> Log(st, "error", "playwright", node_id, frame_url),
                   node |-> <<>>]
    IN  IF got.raised THEN failed
        ELSE IF got.session = <<>>
        THEN [st |-> Log(st, "warning", "no_session", node_id, frame_url),
              node |-> <<>>]
        ELSE LET frame_cdp_session == got.session[1]
                 answer == FrameDocAnswer(frame_cdp_session.frame)
             IN  IF answer = "timeout" THEN failed
                 ELSE IF answer = "noroot"
                 THEN [st |-> Log(st, "warning", "no_root", node_id,
                                  frame_url),
                       node |-> <<>>]
                 ELSE LET root == FrameDoc(frame_cdp_session.frame)
                          iframe_document_url ==
                              IF root.documentURL = Absent THEN frame_url
                              ELSE root.documentURL
                          s1 == [st EXCEPT
                                   !.session_frame_urls =
                                       DictPut(@, frame_cdp_session,
                                               iframe_document_url),
                                   !.sessions =
                                       DictPut(@, iframe_document_url,
                                               frame_cdp_session)]
                      IN  _traverse_node_recursive(s1, root,
                                                   iframe_document_url)

\* _process_iframe_with_playwright_cdp opening the session by frame URL
process_iframe_by_frame_url(st, iframe_element) ==
    process_iframe_session(st, iframe_element,
                           get_session_id(st, iframe_element))

_process_iframe_with_playwright_cdp(st, iframe_element) ==
    process_iframe_session(st, iframe_element,
                           get_session(st, iframe_element))

(***************************************************************************)
(* Queries on the tree (views.py).                                         *)
(***************************************************************************)
RECURSIVE find_all_elements(_, _)
RECURSIVE find_all_in(_, _)

\* DOMElementNode.find_all(lambda e: True): the elements of the subtree,
\* parent before children, children in list order
find_all_elements(h, e) == <<e>> \o find_all_in(h, h[e].children)

find_all_in(h, children) ==
    IF children = <<>> THEN <<>>
    ELSE (IF h[Head(children)].kind = "element"
          THEN find_all_elements(h, Head(children))
          ELSE <<>>) \o find_all_in(h, Tail(children))

(***************************************************************************)
(* Interactivity (utils/interactive.py).  The strings that the rules       *)
(* inspect character by character (class values, attribute names,          *)
(* tabindex values) are spelled out by Chars.                              *)
(***************************************************************************)
Chars(s) ==
    CASE s = "" -> <<>>
      [] s = "src" -> <<"s", "r", "c">>
      [] s = "id" -> <<"i", "d">>
      [] s = "href" -> <<"h", "r", "e", "f">>
      [] s = "disabled" -> <<"d", "i", "s", "a", "b", "l", "e", "d">>
      [] s = "onclick" -> <<"o", "n", "c", "l", "i", "c", "k">>
      [] s = "readonly" -> <<"r", "e", "a", "d", "o", "n", "l", "y">>
      [] s = "role" -> <<"r", "o", "l", "e">>
      [] s = "aria-label" -> <<"a", "r", "i", "a", "-", "l", "a", "b", "e", "l">>
      [] s = "tabindex" -> <<"t", "a", "b", "i", "n", "d", "e", "x">>
      [] s = "class" -> <<"c", "l", "a", "s", "s">>
      [] s = "data-my-Trigger" -> <<"d", "a", "t", "a", "-", "m", "y", "-", "T", "r", "i", "g", "g", "e", "r">>
      [] s = "data-x" -> <<"d", "a", "t", "a", "-", "x">>
      [] s = "contenteditable" -> <<"c", "o", "n", "t", "e", "n", "t", "e", "d", "i", "t", "a", "b", "l", "e">>
      [] s = "my-button-x" -> <<"m", "y", "-", "b", "u", "t", "t", "o", "n", "-", "x">>
      [] s = "btn" -> <<"b", "t", "n">>
      [] s = "0" -> <<"0">>
      [] s = "-1" -> <<"-", "1">>
      [] s = "x" -> <<"x">>
      [] s = " 2 " -> <<" ", "2", " ">>
      [] s = "button" -> <<"b", "u", "t", "t", "o", "n">>
      [] s = "dropdown-toggle" -> <<"d", "r", "o", "p", "d", "o", "w", "n", "-", "t", "o", "g", "g", "l", "e">>
      [] s = "data-" -> <<"d", "a", "t", "a", "-">>
      [] s = "click" -> <<"c", "l", "i", "c", "k">>
      [] s = "action" -> <<"a", "c", "t", "i", "o", "n">>
      [] s = "toggle" -> <<"t", "o", "g", "g", "l", "e">>
      [] s = "trigger" -> <<"t", "r", "i", "g", "g", "e", "r">>
      [] s = "handler" -> <<"h", "a", "n", "d", "l", "e", "r">>
      [] s = "a|b" -> <<"a", "|", "b">>
      [] s = "a\nb" -> <<"a", "\n", "b">>
      [] s = "q\"t" -> <<"q", "\"", "t">>
      [] s = "k" -> <<"k">>
      [] s = "nid|bnid|pid|t|tx|aria|int|fid" -> <<"n", "i", "d", "|", "b", "n", "i", "d", "|", "p", "i", "d", "|", "t", "|", "t", "x", "|", "a", "r", "i", "a", "|", "i", "n", "t", "|", "f", "i", "d">>
      [] s = "main" -> <<"m", "a", "i", "n">>
      [] s = "html" -> <<"h", "t", "m", "l">>
      [] s = "div" -> <<"d", "i", "v">>
      [] s = "span" -> <<"s", "p", "a", "n">>
      [] s = "a" -> <<"a">>
      [] s = "input" -> <<"i", "n", "p", "u", "t">>
      [] s = "iframe" -> <<"i", "f", "r", "a", "m", "e">>
      [] s = "p" -> <<"p">>
      [] s = "body" -> <<"b", "o", "d", "y">>
      [] s = "i" -> <<"i">>
      [] s = "t" -> <<"t">>
      [] s = "nid" -> <<"n", "i", "d">>
      [] s = "bid" -> <<"b", "i", "d">>
      [] s = "fid" -> <<"f", "i", "d">>
      [] s = "tx" -> <<"t", "x">>
      [] s = "aria" -> <<"a", "r", "i", "a">>
      [] s = "int" -> <<"i", "n", "t">>

LowerChar(c) ==
    CASE c = "A" -> "a"
      [] c = "B" -> "b"
      [] c = "C" -> "c"
      [] c = "D" -> "d"
      [] c = "E" -> "e"
      [] c = "F" -> "f"
      [] c = "G" -> "g"
      [] c = "H" -> "h"
      [] c = "I" -> "i"
      [] c = "J" -> "j"
      [] c = "K" -> "k"
      [] c = "L" -> "l"
      [] c = "M" -> "m"
      [] c = "N" -> "n"
      [] c = "O" -> "o"
      [] c = "P" -> "p"
      [] c = "Q" -> "q"
      [] c = "R" -> "r"
      [] c = "S" -> "s"
      [] c = "T" -> "t"
      [] c = "U" -> "u"
      [] c = "V" -> "v"
      [] c = "W" -> "w"
      [] c = "X" -> "x"
      [] c = "Y" -> "y"
      [] c = "Z" -> "z"
      [] OTHER -> c

\* str.lower() on a spelled-out string
lower_chars(q) == [i \in 1..Len(q) |-> LowerChar(q[i])]

\* needle in hay
Contains(hay, needle) ==
    \E i \in 0..(Len(hay) - Len(needle)) :
        SubSeq(hay, i + 1, i + Len(needle)) = needle

\* hay.startswith(prefix)
startswith(hay, prefix) ==
    Len(prefix) <= Len(hay) /\ SubSeq(hay, 1, Len(prefix)) = prefix

Digits == <<"0", "1", "2", "3", "4", "5", "6", "7", "8", "9">>

DigitValue(c) == (CHOOSE i \in 1..Len(Digits) : Digits[i] = c) - 1

RECURSIVE DecimalValue(_)
DecimalValue(q) ==
    IF q = <<>> THEN 0
    ELSE 10 * DecimalValue(SubSeq(q, 1, Len(q) - 1)) + DigitValue(q[Len(q)])

\* int(s) for a decimal literal: [raised |-> TRUE] is the ValueError
int(q) ==
    LET t == strip(q)
        signed == t # <<>> /\ t[1] \in {"+", "-"}
        digits == IF signed THEN Tail(t) ELSE t
    IN  IF digits = <<>>
           \/ \E i \in 1..Len(digits) :
                  \A d \in 1..Len(Digits) : Digits[d] # digits[i]
        THEN [raised |-> TRUE, value |-> 0]
        ELSE [raised |-> FALSE,
              value |-> IF signed /\ t[1] = "-" THEN 0 - DecimalValue(digits)
                        ELSE DecimalValue(digits)]

INTERACTIVE_CURSORS ==
    {"pointer", "move", "text", "grab", "grabbing", "cell", "copy", "alias",
     "all-scroll", "col-resize", "context-menu", "crosshair", "e-resize",
     "ew-resize", "help", "n-resize", "ne-resize", "nesw-resize", "ns-resize",
     "nw-resize", "nwse-resize", "row-resize", "s-resize", "se-resize",
     "sw-resize", "vertical-text", "w-resize", "zoom-in", "zoom-out"}

NON_INTERACTIVE_CURSORS ==
    {"not-allowed", "no-drop", "wait", "progress", "initial", "inherit"}

INTERACTIVE_TAGS ==
    {"a", "button", "input", "select", "textarea", "details", "summary",
     "label", "option", "optgroup", "fieldset", "legend"}

INTERACTIVE_ROLES ==
    {"button", "link", "menuitem", "menuitemradio", "menuitemcheckbox",
     "radio", "checkbox", "tab", "switch", "slider", "spinbutton",
     "combobox", "searchbox", "textbox", "listbox", "option", "scrollbar",
     "treeitem", "gridcell", "columnheader", "rowheader"}

DISABLE_ATTRIBUTES == {"disabled", "readonly"}

MOUSE_EVENT_ATTRIBUTES == {"onclick", "onmousedown", "onmouseup", "ondblclick"}

INTERACTIVE_CLASS_INDICATORS == {"button", "dropdown-toggle"}

INTERACTIVE_DATA_ATTRIBUTES ==
    {"data-index", "data-toggle", "data-action", "data-onclick", "data-click"}

SEMANTIC_INTERACTIVE_ATTRIBUTES ==
    {"aria-label", "aria-labelledby", "aria-describedby"}

EMPTY_HREF_VALUES == {"", "#", "javascript:void(0)", "javascript:;"}

DataKeywords == {"click", "action", "toggle", "trigger", "handler"}

has_interactive_cursor_any_tag(node) ==
    DictGet(node.computed_styles, "cursor", "") \in INTERACTIVE_CURSORS

_has_interactive_cursor(node) ==
    IF node.tag = "html" THEN FALSE
    ELSE DictGet(node.computed_styles, "cursor", "") \in INTERACTIVE_CURSORS

_is_explicitly_disabled(node) ==
    \E attr \in DISABLE_ATTRIBUTES :
        /\ attr \in DOMAIN node.attributes
        /\ node.attributes[attr] \in {"true", ""}

_has_interactive_classes_or_data(node) ==
    LET class_attr == Chars(DictGet(node.attributes, "class", ""))
    IN  \/ \E cls \in INTERACTIVE_CLASS_INDICATORS :
               Contains(class_attr, Chars(cls))
        \/ \E attr \in INTERACTIVE_DATA_ATTRIBUTES :
               attr \in DOMAIN node.attributes
        \/ DictGet(node.attributes, "data-toggle", Absent) = "dropdown"
        \/ DictGet(node.attributes, "aria-haspopup", Absent) = "true"
        \/ \E attr_name \in DOMAIN node.attributes :
               /\ startswith(Chars(attr_name), Chars("data-"))
               /\ \E keyword \in DataKeywords :
                      Contains(lower_chars(Chars(attr_name)), Chars(keyword))

_has_mouse_event_handlers(node) ==
    \E attr \in MOUSE_EVENT_ATTRIBUTES : attr \in DOMAIN node.attributes

_has_valid_tabindex(node) ==
    IF "tabindex" \in DOMAIN node.attributes
    THEN LET tabindex == int(Chars(node.attributes["tabindex"]))
         IN  ~tabindex.raised /\ tabindex.value >= 0
    ELSE FALSE

is_valid_link_any_href(node) ==
    node.tag = "a" /\ DictGet(node.attributes, "href", "") # ""

_is_valid_link(node) ==
    IF node.tag # "a" THEN FALSE
    ELSE LET href == DictGet(node.attributes, "href", "")
         IN  href # "" /\ href \notin EMPTY_HREF_VALUES

_has_pointer_events_disabled(node) ==
    DictGet(node.computed_styles, "pointer-events", Absent) = "none"

_has_semantic_interactive_attributes(node) ==
    \E attr \in SEMANTIC_INTERACTIVE_ATTRIBUTES :
        attr \in DOMAIN node.attributes

_is_content_editable_enhanced(node) ==
    IF DictGet(node.attributes, "contenteditable", "") = "true"
    THEN DictGet(node.computed_styles, "user-select", "") # "none"
    ELSE FALSE

\* the rules behind the tag rule
interactive_late_rules(node) ==
    LET role == DictGet(node.attributes, "role", "")
        aria_role == DictGet(node.attributes, "aria-role", "")
    IN  IF role \in INTERACTIVE_ROLES \/ aria_role \in INTERACTIVE_ROLES
        THEN TRUE
        ELSE IF _is_content_editable_enhanced(node) THEN TRUE
        ELSE IF _has_interactive_classes_or_data(node) THEN TRUE
        ELSE IF _has_mouse_event_handlers(node) THEN TRUE
        ELSE IF _has_semantic_interactive_attributes(node) THEN TRUE
        ELSE FALSE

interactive_tag_rule_falls_through(node) ==
    LET cursor == DictGet(node.computed_styles, "cursor", "")
    IN  IF cursor \in NON_INTERACTIVE_CURSORS THEN FALSE
        ELSE IF _is_explicitly_disabled(node)
        THEN interactive_late_rules(node)
        ELSE TRUE

\* the rule for the inherently interactive tags
interactive_tag_rule(node) ==
    LET cursor == DictGet(node.computed_styles, "cursor", "")
    IN  IF cursor \in NON_INTERACTIVE_CURSORS THEN FALSE
        ELSE IF _is_explicitly_disabled(node) THEN FALSE
        ELSE TRUE

is_interactive_element_gate_after_cursor(node) ==
    IF node.kind # "element" THEN FALSE
    ELSE IF _has_interactive_cursor(node) THEN TRUE
    ELSE IF _has_pointer_events_disabled(node) THEN FALSE
    ELSE IF _is_valid_link(node) THEN TRUE
    ELSE IF _has_valid_tabindex(node) THEN TRUE
    ELSE IF node.tag \in INTERACTIVE_TAGS THEN interactive_tag_rule(node)
    ELSE interactive_late_rules(node)

is_interactive_element(node) ==
    IF node.kind # "element" THEN FALSE
    ELSE IF _has_pointer_events_disabled(node) THEN FALSE
    ELSE IF _has_interactive_cursor(node) THEN TRUE
    ELSE IF _is_valid_link(node) THEN TRUE
    ELSE IF _has_valid_tabindex(node) THEN TRUE
    ELSE IF node.tag \in INTERACTIVE_TAGS THEN interactive_tag_rule(node)
    ELSE interactive_late_rules(node)

(***************************************************************************)
(* Enrichment (utils/enrichment.py, utils/visible.py).  Python indexes     *)
(* from 0: PyAt(s, i) is s[i], the columns of a snapshot hold 0-based      *)
(* indexes.                                                                *)
(***************************************************************************)
USEFUL_COMPUTED_STYLES ==
    <<"display", "visibility", "opacity", "position", "z-index",
      "pointer-events", "cursor", "overflow", "overflow-x", "overflow-y",
      "width", "height", "top", "left", "right", "bottom", "transform",
      "clip", "clip-path", "user-select", "background-color", "color",
      "border", "margin", "padding">>

PyAt(s, i) == IF i >= 0 THEN s[i + 1] ELSE s[Len(s) + i + 1]

PyInRange(s, i) == i < Len(s) /\ i >= 0 - Len(s)

is_visible_element_ignoring_visibility(node) ==
    IF node.kind # "element" THEN FALSE
    ELSE IF DictGet(node.computed_styles, "display", "") = "none" THEN FALSE
    ELSE \E i \in 1..Len(node.offsetRects) :
             /\ node.offsetRects[i].width > 0
             /\ node.offsetRects[i].height > 0

is_visible_element(node) ==
    IF node.kind # "element" THEN FALSE
    ELSE LET visibility == DictGet(node.computed_styles, "visibility", "")
             display == DictGet(node.computed_styles, "display", "")
         IN  IF display = "none" \/ visibility = "hidden" THEN FALSE
             ELSE \E i \in 1..Len(node.offsetRects) :
                      /\ node.offsetRects[i].width > 0
                      /\ node.offsetRects[i].height > 0

RECURSIVE parse_style_loop_shifted(_, _, _, _)
parse_style_loop_shifted(style_array, strings, i, styles_dict) ==
    IF i >= Len(style_array) THEN [raised |-> FALSE, dict |-> styles_dict]
    ELSE LET value_idx == PyAt(style_array, i)
         IN  IF i + 1 < Len(USEFUL_COMPUTED_STYLES)
                /\ value_idx < Len(strings)
             THEN IF ~PyInRange(strings, value_idx)
                  THEN [raised |-> TRUE, dict |-> styles_dict]
                  ELSE parse_style_loop_shifted(style_array, strings, i + 1,
                           DictPut(styles_dict,
                                   PyAt(USEFUL_COMPUTED_STYLES, i + 1),
                                   PyAt(strings, value_idx)))
             ELSE parse_style_loop_shifted(style_array, strings, i + 1,
                                           styles_dict)

\* the loop of _parse_style_array; raised is the IndexError of strings[...]
RECURSIVE parse_style_loop(_, _, _, _)
parse_style_loop(style_array, strings, i, styles_dict) ==
    IF i >= Len(style_array) THEN [raised |-> FALSE, dict |-> styles_dict]
    ELSE LET value_idx == PyAt(style_array, i)
         IN  IF i < Len(USEFUL_COMPUTED_STYLES) /\ value_idx < Len(strings)
             THEN IF ~PyInRange(strings, value_idx)
                  THEN [raised |-> TRUE, dict |-> styles_dict]
                  ELSE parse_style_loop(style_array, strings, i + 1,
                           DictPut(styles_dict,
                                   PyAt(USEFUL_COMPUTED_STYLES, i),
                                   PyAt(strings, value_idx)))
             ELSE parse_style_loop(style_array, strings, i + 1, styles_dict)

RECURSIVE dict_update(_, _, _)
dict_update(d, other, keys) ==
    IF keys = {} THEN d
    ELSE LET k == CHOOSE x \in keys : TRUE
         IN  dict_update(DictPut(d, k, other[k]), other, keys \ {k})

_parse_style_array(element, style_array, strings) ==
    LET r == parse_style_loop(style_array, strings, 0, <<>>)
    IN  IF r.raised \/ DOMAIN r.dict = {} THEN element
        ELSE [element EXCEPT !.computed_styles =
                 dict_update(@, r.dict, DOMAIN r.dict)]

\* first position i of column index with index[i] = node_idx and a value
FirstMatch(index, values, node_idx) ==
    LET hits == {i \in 0..(Len(index) - 1) :
                    PyAt(index, i) = node_idx /\ i < Len(values)}
    IN  IF hits = {} THEN None
        ELSE CHOOSE i \in hits : \A j \in hits : i <= j

_extract_computed_styles(element, node_idx, document, strings) ==
    LET cs == document.computedStyles
        i == FirstMatch(cs.index, cs.value, node_idx)
        layout_idx == FirstMatch(document.layout.nodeIndex,
                                 document.layout.styles, node_idx)
    IN  IF i # None
        THEN _parse_style_array(element, PyAt(cs.value, i), strings)
        ELSE IF layout_idx # None
        THEN _parse_style_array(element,
                 PyAt(document.layout.styles, layout_idx), strings)
        ELSE element

_extract_layout_data(element, layout_idx, layout_bounds, paint_orders) ==
    LET e1 == IF layout_idx < Len(layout_bounds)
                 /\ Len(PyAt(layout_bounds, layout_idx)) >= 4
              THEN LET bounds == PyAt(layout_bounds, layout_idx)
                   IN  [element EXCEPT
                          !.bounding_box =
                              <<[x |-> bounds[1], y |-> bounds[2],
                                 width |-> bounds[3], height |-> bounds[4]]>>,
                          !.offsetRects =
                              <<[width |-> bounds[3], height |-> bounds[4]]>>]
              ELSE element
    IN  IF layout_idx < Len(paint_orders)
        THEN [e1 EXCEPT !.paint_order = <<PyAt(paint_orders, layout_idx)>>]
        ELSE e1

add_visibility_once(element) ==
    IF element.is_visible # <<>> THEN element
    ELSE [element EXCEPT !.is_visible = <<is_visible_element(element)>>,
                         !.is_interactive =
                             <<is_interactive_element(element)>>]

_add_visibility_properties(element) ==
    [element EXCEPT !.is_visible = <<is_visible_element(element)>>,
                    !.is_interactive = <<is_interactive_element(element)>>]

\* node_to_layout[node_idx]: the last layout row naming the node, or None
node_to_layout(layout_node_indices, node_idx) ==
    LET rows == {i \in 0..(Len(layout_node_indices) - 1) :
                    PyAt(layout_node_indices, i) = node_idx}
    IN  IF rows = {} THEN None
        ELSE CHOOSE i \in rows : \A j \in rows : i >= j

RECURSIVE process_snapshot_nodes_flags_first(_, _, _, _, _, _)
process_snapshot_nodes_flags_first(h, document, strings, frame_url, backend_node_map, node_idx) ==
    LET backend_node_ids == document.nodes.backendNodeId
        node_types == document.nodes.nodeType
    IN  IF node_idx >= Len(backend_node_ids) THEN h
        ELSE LET backend_node_id == PyAt(backend_node_ids, node_idx)
                 skip == \/ node_idx >= Len(node_types)
                         \/ PyAt(node_types, node_idx) # 1
                         \/ backend_node_id \notin DOMAIN backend_node_map
                         \/ h[backend_node_map[backend_node_id]].frame_url
                                # frame_url
                 element == backend_node_map[backend_node_id]
                 e1 == _add_visibility_properties(h[element])
                 e2 == _extract_computed_styles(e1, node_idx, document,
                                                strings)
                 layout_idx == node_to_layout(document.layout.nodeIndex,
                                              node_idx)
                 e3 == IF layout_idx # None
                       THEN _extract_layout_data(e2, layout_idx,
                                document.layout.bounds,
                                document.layout.paintOrders)
                       ELSE e2
             IN  process_snapshot_nodes_flags_first(
                     IF skip THEN h ELSE [h EXCEPT ![element] = e3],
                     document, strings, frame_url, backend_node_map,
                     node_idx + 1)

\* the body of the loop over the node rows of one snapshot document
RECURSIVE process_snapshot_nodes(_, _, _, _, _, _)
process_snapshot_nodes(h, document, strings, frame_url, backend_node_map, node_idx) ==
    LET backend_node_ids == document.nodes.backendNodeId
        node_types == document.nodes.nodeType
    IN  IF node_idx >= Len(backend_node_ids) THEN h
        ELSE LET backend_node_id == PyAt(backend_node_ids, node_idx)
                 skip == \/ node_idx >= Len(node_types)
                         \/ PyAt(node_types, node_idx) # 1
                         \/ backend_node_id \notin DOMAIN backend_node_map
                         \/ h[backend_node_map[backend_node_id]].frame_url
                                # frame_url
                 element == backend_node_map[backend_node_id]
                 e1 == _extract_computed_styles(h[element], node_idx,
                                                document, strings)
                 layout_idx == node_to_layout(document.layout.nodeIndex,
                                              node_idx)
                 e2 == IF layout_idx # None
                       THEN _extract_layout_data(e1, layout_idx,
                                document.layout.bounds,
                                document.layout.paintOrders)
                       ELSE e1
                 e3 == _add_visibility_properties(e2)
             IN  process_snapshot_nodes(
                     IF skip THEN h ELSE [h EXCEPT ![element] = e3],
                     document, strings, frame_url, backend_node_map,
                     node_idx + 1)

RECURSIVE process_snapshot_documents(_, _, _, _, _)
process_snapshot_documents(h, documents, strings, frame_url, backend_node_map) ==
    IF documents = <<>> THEN h
    ELSE process_snapshot_documents(
             process_snapshot_nodes(h, Head(documents), strings, frame_url,
                                    backend_node_map, 0),
             Tail(documents), strings, frame_url, backend_node_map)

_process_snapshot_data(st, snapshot_result, frame_url, backend_node_map) ==
    [st EXCEPT !.heap = process_snapshot_documents(@,
                            snapshot_result.documents,
                            snapshot_result.strings, frame_url,
                            backend_node_map)]

\* answer is what session.send('DOMSnapshot.captureSnapshot') does:
\* [raised |-> TRUE] or [raised |-> FALSE, result |-> the response]
_enrich_session_nodes(st, frame_url, backend_node_map, answer) ==
    IF answer.raised
    THEN Log(st, "warning", "enrich_session", None, frame_url)
    ELSE _process_snapshot_data(st, answer.result, frame_url,
                                backend_node_map)

\* keys of elements_by_frame_and_backend, in insertion order
RECURSIVE frame_keys(_, _, _)
frame_keys(h, all_elements, seen) ==
    IF all_elements = <<>> THEN <<>>
    ELSE LET k == h[Head(all_elements)].frame_url
         IN  IF k \in seen THEN frame_keys(h, Tail(all_elements), seen)
             ELSE <<k>> \o frame_keys(h, Tail(all_elements), seen \cup {k})

elements_by_frame_without_iframes(h, all_elements, frame_key) ==
    LET at == {i \in 1..Len(all_elements) :
                  /\ h[all_elements[i]].frame_url = frame_key
                  /\ h[all_elements[i]].tag # "iframe"}
        ids == {h[all_elements[i]].backend_node_id : i \in at}
    IN  [b \in ids |->
            all_elements[CHOOSE i \in at :
                /\ h[all_elements[i]].backend_node_id = b
                /\ \A j \in at :
                       h[all_elements[j]].backend_node_id = b => j <= i]]

\* elements_by_frame_and_backend[frame_key]: a later element replaces an
\* earlier one stored under the same backend id
elements_by_frame_and_backend(h, all_elements, frame_key) ==
    LET at == {i \in 1..Len(all_elements) :
                  h[all_elements[i]].frame_url = frame_key}
        ids == {h[all_elements[i]].backend_node_id : i \in at}
    IN  [b \in ids |->
            all_elements[CHOOSE i \in at :
                /\ h[all_elements[i]].backend_node_id = b
                /\ \A j \in at :
                       h[all_elements[j]].backend_node_id = b => j <= i]]

\* the first value of elements_by_frame_and_backend[frame_key].values()
first_frame_element(h, all_elements, frame_key) ==
    LET first == CHOOSE i \in 1..Len(all_elements) :
                     /\ h[all_elements[i]].frame_url = frame_key
                     /\ \A j \in 1..(i - 1) :
                            h[all_elements[j]].frame_url # frame_key
    IN  elements_by_frame_and_backend(h, all_elements, frame_key)[
            h[all_elements[first]].backend_node_id]

\* what DOMSnapshot.captureSnapshot answers on a frame session
FrameSnapshotAnswer(url) == [raised |-> TRUE]

\* "Enrich iframe sessions that we already have", in insertion order
RECURSIVE enrich_known_sessions(_, _, _)
enrich_known_sessions(st, all_elements, todo) ==
    IF todo = {} THEN st
    ELSE LET session == CHOOSE x \in todo :
                            \A y \in todo : x.serial <= y.serial
             frame_url == DictGet(st.session_frame_urls, session, "unknown")
             keys == frame_keys(st.heap, all_elements, {})
             s1 == IF \E i \in 1..Len(keys) : keys[i] = frame_url
                   THEN _enrich_session_nodes(st, frame_url,
                            elements_by_frame_and_backend(st.heap,
                                all_elements, frame_url),
                            FrameSnapshotAnswer(frame_url))
                   ELSE st
         IN  enrich_known_sessions(s1, all_elements, todo \ {session})

RECURSIVE enrich_unenriched_until_failure(_, _, _)
enrich_unenriched_until_failure(st, all_elements, unenriched_frame_urls) ==
    IF unenriched_frame_urls = <<>> THEN st
    ELSE LET frame_url == Head(unenriched_frame_urls)
             frame_element == first_frame_element(st.heap, all_elements,
                                                  frame_url)
             got == get_session(st, frame_element)
         IN  IF got.raised
             THEN Log(st, "warning", "lazy_session", None, frame_url)
             ELSE enrich_unenriched_until_failure(st, all_elements,
                      Tail(unenriched_frame_urls))

\* "Process each unenriched frame URL"
RECURSIVE enrich_unenriched(_, _, _)
enrich_unenriched(st, all_elements, unenriched_frame_urls) ==
    IF unenriched_frame_urls = <<>> THEN st
    ELSE LET frame_url == Head(unenriched_frame_urls)
             frame_element == first_frame_element(st.heap, all_elements,
                                                  frame_url)
             got == get_session(st, frame_element)
             s1 == IF got.raised
                   THEN Log(st, "warning", "lazy_session", None, frame_url)
                   ELSE IF got.session = <<>> THEN st
                   ELSE _enrich_session_nodes(
                            [st EXCEPT
                               !.sessions = DictPut(@, frame_url,
                                                    got.session[1]),
                               !.session_frame_urls =
                                   DictPut(@, got.session[1], frame_url)],
                            frame_url,
                            elements_by_frame_and_backend(st.heap,
                                all_elements, frame_url),
                            FrameSnapshotAnswer(frame_url))
         IN  enrich_unenriched(s1, all_elements, Tail(unenriched_frame_urls))

main_frame_url(st) == DictGet(st.session_frame_urls, MainSession, "unknown")

\* enrich_dom_tree up to its first await: TRUE when it suspends on the
\* snapshot request for the main frame
enrich_awaits_main(st, root) ==
    /\ st.heap[root].kind = "element"
    /\ LET keys == frame_keys(st.heap, find_all_elements(st.heap, root), {})
       IN  \E i \in 1..Len(keys) : keys[i] = main_frame_url(st)

\* "Process each unenriched frame URL": the frames no session has enriched
enrich_lazily(st, all_elements) ==
    LET enriched_urls == {main_frame_url(st)} \cup
            {st.session_frame_urls[x] : x \in DOMAIN st.session_frame_urls}
        unenriched_frame_urls ==
            SelectSeq(frame_keys(st.heap, all_elements, {}),
                      LAMBDA u : u \notin enriched_urls /\ u # "unknown")
    IN  enrich_unenriched(st, all_elements, unenriched_frame_urls)

\* enrich_dom_tree after the main frame
enrich_rest(st, root) ==
    LET all_elements == find_all_elements(st.heap, root)
    IN  enrich_lazily(enrich_known_sessions(st, all_elements,
                          {st.sessions[k] : k \in DOMAIN st.sessions}),
                      all_elements)

\* enrich_dom_tree when get_all_elements raises (the root has no find_all)
enrich_fails(st) == Log(st, "warning", "enrich", None, "")

(***************************************************************************)
(* Snapshot responses the browser may give for the main session: every     *)
(* element of the tree as a node row behind the document's row, all with   *)
(* the same style vector and rectangle.                                    *)
(***************************************************************************)
SnapshotStrings ==
    <<"block", "visible", "none", "hidden", "pointer", "auto", "not-allowed",
      "default">>

\* a style vector by position: display, visibility, opacity, position,
\* z-index, pointer-events, cursor
StyleVector(display, visibility, pointer_events, cursor) ==
    <<display, visibility, 5, 5, 5, pointer_events, cursor>>

MainStyleVectors ==
    { <<0, 1>>, <<2, 1>>, StyleVector(0, 1, 5, 4), StyleVector(0, 1, 2, 4) }

Snapshot(ids, style, rect) ==
    [strings |-> SnapshotStrings,
     documents |-> <<
       [nodes |-> [backendNodeId |-> <<1>> \o ids,
                   nodeType |-> <<DOCUMENT>> \o [i \in 1..Len(ids) |-> 1]],
        layout |-> [nodeIndex |-> [i \in 1..Len(ids) |-> i],
                    bounds |-> [i \in 1..Len(ids) |-> rect],
                    paintOrders |-> [i \in 1..Len(ids) |-> i],
                    styles |-> [i \in 1..Len(ids) |-> style]],
        computedStyles |-> [index |-> <<>>, value |-> <<>>]]>>]

MainSnapshotAnswers(h, root) ==
    LET all == find_all_elements(h, root)
        ids == [i \in 1..Len(all) |-> h[all[i]].backend_node_id]
    IN  { [raised |-> TRUE,
           result |-> [strings |-> <<>>, documents |-> <<>>]],
          [raised |-> FALSE,
           result |-> [strings |-> <<>>, documents |-> <<>>]] }
        \cup {[raised |-> FALSE,
               result |-> Snapshot(ids, style, <<0, 0, 10, 10>>)] :
                  style \in MainStyleVectors}

(***************************************************************************)
(* DOMService.build_dom_tree as a coroutine: one action per stretch of     *)
(* code between two protocol calls that suspend it.                        *)
(***************************************************************************)
St == [processed_frames |-> processed_frames,
       processed_iframe_nodes |-> processed_iframe_nodes,
       sessions |-> sessions, session_frame_urls |-> session_frame_urls,
       iframe_depth |-> iframe_depth, heap |-> heap, log |-> log,
       active |-> 0, windows |-> <<>>]

Store(st) ==
    /\ processed_frames' = st.processed_frames
    /\ processed_iframe_nodes' = st.processed_iframe_nodes
    /\ sessions' = st.sessions
    /\ session_frame_urls' = st.session_frame_urls
    /\ iframe_depth' = st.iframe_depth
    /\ heap' = st.heap
    /\ log' = st.log

NoOutcome == [status |-> "none", root |-> <<>>, error |-> "", cause |-> ""]

NoFetch == [status |-> "none", root |-> <<>>, error |-> "", at |-> ""]

\* "return self.dom_tree"
Returns(tree) ==
    /\ pc' = "idle"
    /\ outcome' = [status |-> "returned", root |-> tree, error |-> "",
                   cause |-> ""]

\* "except Exception as e: ... raise RuntimeError(...) from e"
Raises(st, cause) ==
    /\ Store(Log(st, "error", "build", None, cause))
    /\ pc' = "idle"
    /\ outcome' = [status |-> "raised", root |-> <<>>,
                   error |-> "RuntimeError", cause |-> cause]

Init ==
    /\ page \in Pages
    /\ pc = "idle"
    /\ processed_frames = {}
    /\ processed_iframe_nodes = {}
    /\ sessions = <<>>
    /\ session_frame_urls = <<>>
    /\ iframe_depth = 0
    /\ heap = <<>>
    /\ dom_tree = <<>>
    /\ log = <<>>
    /\ outcome = NoOutcome
    /\ builds = 0
    /\ snapshot = <<>>
    /\ passes = 0
    /\ self_page = page
    /\ tree_page = <<>>
    /\ fetched = NoFetch
    /\ suspended = <<>>
    /\ llm = <<>>
    /\ co = <<>>

\* build_dom_tree is called: "Reset state", then Target.getTargets is sent
Call ==
    /\ pc = "idle"
    /\ builds < MaxBuilds
    /\ builds' = builds + 1
    /\ processed_frames' = {}
    /\ processed_iframe_nodes' = {}
    /\ sessions' = <<>>
    /\ session_frame_urls' = <<>>
    /\ pc' = "getTargets"
    /\ outcome' = [NoOutcome EXCEPT !.status = "running"]
    /\ log' = <<>>
    /\ snapshot' = <<>>
    /\ passes' = 0
    /\ UNCHANGED <<page, iframe_depth, heap, dom_tree>>
    /\ UNCHANGED beyond

\* Target.getTargets answers or fails; DOM.getDocument is sent
TargetsAnswer ==
    /\ pc = "getTargets"
    /\ \E ok \in BOOLEAN :
          IF ok
          THEN /\ pc' = "getDocument"
               /\ UNCHANGED <<processed_frames, processed_iframe_nodes,
                              sessions, session_frame_urls, iframe_depth,
                              heap, log, outcome>>
          ELSE Raises(St, "CDPError")
    /\ UNCHANGED <<page, dom_tree, builds, snapshot, passes>>
    /\ UNCHANGED beyond

\* the tree is built from root_node and enrichment runs up to its first
\* snapshot request
build_traversed(r) ==
    IF r.node = <<>>
    THEN Raises(r.st, "ValueError") /\ UNCHANGED dom_tree
    ELSE /\ dom_tree' = r.node
         /\ IF enrich_awaits_main(r.st, r.node[1])
            THEN /\ Store(r.st)
                 /\ pc' = "snapshot"
                 /\ UNCHANGED outcome
            ELSE /\ Store(IF r.st.heap[r.node[1]].kind = "element"
                          THEN enrich_rest(r.st, r.node[1])
                          ELSE enrich_fails(r.st))
                 /\ Returns(r.node)

build_from(root_node) ==
    LET document_url == IF root_node.documentURL = Absent THEN MainURL
                        ELSE root_node.documentURL
        s1 == [St EXCEPT !.session_frame_urls =
                  DictPut(@, MainSession, document_url)]
    IN  build_traversed(_traverse_node_recursive(s1, root_node, document_url))

\* DOM.getDocument fails, answers without a root, or answers with the page
DocumentAnswer ==
    /\ pc = "getDocument"
    /\ \E answer \in {"raise", "noroot", "root"} :
          CASE answer = "raise" ->
                   Raises(St, "CDPError") /\ UNCHANGED dom_tree
            [] answer = "noroot" ->
                   Raises(St, "ValueError") /\ UNCHANGED dom_tree
            [] answer = "root" -> build_from(page)
    /\ UNCHANGED <<page, builds, snapshot, passes>>
    /\ UNCHANGED beyond

\* enrich_dom_tree from the main frame's snapshot answer to its end
enrich_from_main(st, root, answer) ==
    LET all_elements == find_all_elements(st.heap, root)
        s1 == _enrich_session_nodes(st, main_frame_url(st),
                  elements_by_frame_and_backend(st.heap, all_elements,
                      main_frame_url(st)),
                  answer)
    IN  enrich_rest(s1, root)

\* the main frame's snapshot request answers; enrichment runs to its end
\* and build_dom_tree returns
SnapshotAnswer ==
    /\ pc = "snapshot"
    /\ \E answer \in MainSnapshotAnswers(heap, dom_tree[1]) :
          /\ Store(enrich_from_main(St, dom_tree[1], answer))
          /\ snapshot' = <<answer>>
          /\ Returns(dom_tree)
    /\ UNCHANGED <<page, dom_tree, builds, passes>>
    /\ UNCHANGED beyond

\* enrich_dom_tree is called once more on the built tree, with the same
\* sessions, and the browser answers the snapshot request as it did before
EnrichAgain ==
    /\ pc = "idle"
    /\ outcome.status = "returned"
    /\ passes < MaxPasses
    /\ passes' = passes + 1
    /\ Store(IF heap[dom_tree[1]].kind # "element" THEN enrich_fails(St)
             ELSE IF enrich_awaits_main(St, dom_tree[1])
             THEN enrich_from_main(St, dom_tree[1], snapshot[1])
             ELSE enrich_rest(St, dom_tree[1]))
    /\ UNCHANGED <<page, pc, dom_tree, outcome, builds, snapshot>>
    /\ UNCHANGED beyond

Next ==
    \/ Call
    \/ TargetsAnswer
    \/ DocumentAnswer
    \/ SnapshotAnswer
    \/ EnrichAgain

Spec == Init /\ [][Next]_vars

(***************************************************************************)
(* The classifiers and the row decoder on their own: a tree of one element *)
(* (the root of a one-element document), and the three steps that          *)
(* _process_snapshot_data takes for the row of that element, one action    *)
(* each.                                                                   *)
(***************************************************************************)
\* elements that the interactivity rules tell apart
Controls ==
    { RawElem(76, "A", <<"href", "javascript:void(0)", "disabled", "">>, <<>>),
      RawElem(77, "A", <<"href", "">>, <<>>),
      RawElem(78, "A", <<"href", "javascript:;", "onclick", "f",
                         "disabled", "true">>, <<>>),
      RawElem(79, "BUTTON", <<"tabindex", " 2 ", "disabled", "">>, <<>>),
      RawElem(80, "A", <<"href", "#">>, <<RawText(73, <<"k">>)>>),
      RawElem(81, "A", <<"href", "/x">>, <<>>),
      RawElem(82, "A", <<"href", "#", "disabled", "">>, <<>>),
      RawElem(83, "A", <<>>, <<>>),
      RawElem(84, "A", <<"href", "/x", "disabled", "">>, <<>>),
      RawElem(85, "BUTTON", <<>>, <<>>),
      RawElem(86, "BUTTON", <<"disabled", "disabled">>, <<>>),
      RawElem(87, "INPUT", <<"readonly", "", "role", "button",
                             "aria-label", "x">>, <<>>),
      RawElem(88, "DIV", <<"role", "button">>, <<>>),
      RawElem(89, "DIV", <<"role", "x">>, <<>>),
      RawElem(90, "DIV", <<"onclick", "f">>, <<>>),
      RawElem(91, "DIV", <<"aria-label", "x">>, <<>>),
      RawElem(92, "DIV", <<"tabindex", "0">>, <<>>),
      RawElem(93, "DIV", <<"tabindex", "-1">>, <<>>),
      RawElem(94, "DIV", <<"tabindex", "x">>, <<>>),
      RawElem(95, "DIV", <<"class", "my-button-x">>, <<>>),
      RawElem(96, "DIV", <<"class", "btn">>, <<>>),
      RawElem(97, "DIV", <<"data-my-Trigger", "1">>, <<>>),
      RawElem(98, "DIV", <<"data-x", "1">>, <<>>),
      RawElem(99, "DIV", <<"contenteditable", "true">>, <<>>) }


(***************************************************************************)
(* The LLM translations of views.py.  A str is the sequence of its         *)
(* characters; an int is written in decimal.                               *)
(***************************************************************************)
\* str(n), the f-string and json.dumps rendering of an int
RECURSIVE str_int(_)
str_int(n) ==
    IF n < 0 THEN <<"-">> \o str_int(0 - n)
    ELSE IF n < 10 THEN <<Digits[n + 1]>>
    ELSE str_int(n \div 10) \o <<Digits[(n % 10) + 1]>>

\* s.replace(old, new) for one-character old and new
replace(s, old, new) == [i \in 1..Len(s) |-> IF s[i] = old THEN new ELSE s[i]]

\* sep.join(parts)
RECURSIVE join(_, _)
join(sep, parts) ==
    IF parts = <<>> THEN <<>>
    ELSE IF Len(parts) = 1 THEN parts[1]
    ELSE parts[1] \o sep \o join(sep, Tail(parts))

\* the predicates handed to root.find_all by the three getters
get_elements(h, root, which) ==
    SelectSeq(find_all_elements(h, root),
              LAMBDA e : CASE which = "all" -> TRUE
                           [] which = "visible" -> h[e].is_visible = <<TRUE>>
                           [] which = "clickable" ->
                                  h[e].is_interactive = <<TRUE>>)

\* the values of the node dict: an int, a str or True
JsonInt(n) == [type |-> "int", int |-> n, str |-> <<>>]

JsonStr(s) == [type |-> "str", int |-> 0, str |-> s]

JsonTrue == [type |-> "true", int |-> 0, str |-> <<>>]

\* the dict built for one element, as its items in insertion order
llm_node(h, e) ==
    LET element == h[e]
        text == strip(element.text_content)
        aria_label == Chars(DictGet(element.attributes, "aria-label", ""))
    IN  << <<"i", JsonInt(element.node_id)>>,
           <<"t", JsonStr(Chars(element.tag))>>,
           <<"nid", JsonInt(element.node_id)>>,
           <<"bid", JsonInt(element.backend_node_id)>>,
           <<"fid", JsonStr(Chars(element.frame_url))>> >>
        \o (IF element.parent # 0
            THEN << <<"p", JsonInt(h[element.parent].node_id)>> >> ELSE <<>>)
        \o (IF text # <<>> THEN << <<"tx", JsonStr(text)>> >> ELSE <<>>)
        \o (IF aria_label # <<>> /\ aria_label # text
            THEN << <<"aria", JsonStr(aria_label)>> >> ELSE <<>>)
        \o (IF element.is_interactive = <<TRUE>>
            THEN << <<"int", JsonTrue>> >> ELSE <<>>)

\* json.dumps of a str: quoted, with the escapes of the JSON grammar
RECURSIVE json_escape(_)
json_escape(s) ==
    IF s = <<>> THEN <<>>
    ELSE (CASE Head(s) = "\"" -> <<"\\", "\"">>
            [] Head(s) = "\\" -> <<"\\", "\\">>
            [] Head(s) = "\n" -> <<"\\", "n">>
            [] Head(s) = "\t" -> <<"\\", "t">>
            [] OTHER -> <<Head(s)>>) \o json_escape(Tail(s))

dumps_str(s) == <<"\"">> \o json_escape(s) \o <<"\"">>

dumps_value(v) ==
    CASE v.type = "int" -> str_int(v.int)
      [] v.type = "str" -> dumps_str(v.str)
      [] v.type = "true" -> <<"t", "r", "u", "e">>

\* json.dumps of a dict with separators (',', ':')
dumps_dict(items) ==
    <<"{">>
    \o join(<<",">>, [i \in 1..Len(items) |->
                         dumps_str(Chars(items[i][1])) \o <<":">>
                         \o dumps_value(items[i][2])])
    \o <<"}">>

\* DOMTree._to_llm_json(elements)
_to_llm_json(h, elements) ==
    <<"{">> \o dumps_str(<<"n">>) \o <<":", "[">>
    \o join(<<",">>, [i \in 1..Len(elements) |->
                         dumps_dict(llm_node(h, elements[i]))])
    \o <<"]", "}">>

\* the f-string line of one element in _to_llm_csv
llm_line(h, e) ==
    LET element == h[e]
        parent_id == IF element.parent # 0
                     THEN str_int(h[element.parent].node_id) ELSE <<>>
        text == strip(replace(replace(element.text_content, "|", " "),
                              "\n", " "))
        aria_label == Chars(DictGet(element.attributes, "aria-label", ""))
        aria == IF aria_label # <<>> /\ aria_label # text
                THEN aria_label ELSE <<>>
        interactive == IF element.is_interactive = <<TRUE>>
                       THEN <<"1">> ELSE <<"0">>
    IN  join(<<"|">>, <<str_int(element.node_id),
                        str_int(element.backend_node_id), parent_id,
                        Chars(element.tag), text, aria, interactive,
                        Chars(element.frame_url)>>)

\* DOMTree._to_llm_csv(elements)
_to_llm_csv(h, elements) ==
    join(<<"\n">>,
         <<Chars("nid|bnid|pid|t|tx|aria|int|fid")>>
         \o [i \in 1..Len(elements) |-> llm_line(h, elements[i])])

UnitPages ==
    {MainDoc(<<c>>) :
        c \in Controls \cup
              { RawHtml(2, <<>>),
                RawElem(20, "DIV", <<>>, <<RawText(21, <<"c">>)>>),
                RawElem(22, "SPAN", <<"id", "d">>, <<>>),
                RawElem(60, "DIV", <<"aria-label", "a|b">>,
                        <<RawText(61, <<"u", "|", "v">>),
                          RawElem(62, "SPAN", <<"aria-label", "a\nb">>, <<>>),
                          RawElem(63, "BUTTON", <<"aria-label", "q\"t">>,
                                  <<RawText(64, <<"k">>)>>)>>),
                RawElem(65, "P", <<"aria-label", "k">>,
                        <<RawText(66, <<"k">>),
                          RawElem(67, "A", <<"href", "#">>, <<>>)>>) }}

UnitStyleVectors ==
    {StyleVector(display, visibility, pointer_events, cursor) :
        display \in {0, 2}, visibility \in {1, 3}, pointer_events \in {5, 2},
        cursor \in {4, 6, 7}}
    \cup { <<>>, <<0, 1>>, <<0, 8>>, <<-1, 1>>, <<-9, 1>>,
           [i \in 1..26 |-> IF i = 1 THEN 0 ELSE IF i = 2 THEN 1 ELSE 5],
           [i \in 1..20 |-> IF i = 1 THEN 0 ELSE IF i = 20 THEN 2 ELSE 1] }

UnitRects ==
    { <<0, 0, 10, 10>>, <<0, 0, 0, 10>>, <<0, 0, 10, 0>>, <<0, 0, 10>> }

EmptySt ==
    [processed_frames |-> {}, processed_iframe_nodes |-> {},
     sessions |-> <<>>, session_frame_urls |-> <<>>, iframe_depth |-> 0,
     heap |-> <<>>, log |-> <<>>, active |-> 0, windows |-> <<>>]

UnitInit ==
    /\ page \in UnitPages
    /\ LET r == _traverse_node_recursive(EmptySt, page, MainURL)
       IN  heap = r.st.heap /\ dom_tree = r.node
    /\ pc = "styles"
    /\ processed_frames = {}
    /\ processed_iframe_nodes = {}
    /\ sessions = <<>>
    /\ session_frame_urls = <<>>
    /\ iframe_depth = 0
    /\ log = <<>>
    /\ outcome = NoOutcome
    /\ builds = 0
    /\ snapshot = <<>>
    /\ passes = 0
    /\ self_page = page
    /\ tree_page = <<page>>
    /\ fetched = NoFetch
    /\ suspended = <<>>
    /\ llm = <<>>
    /\ co = <<>>

UnitUnchanged ==
    UNCHANGED <<page, processed_frames, processed_iframe_nodes, sessions,
                session_frame_urls, iframe_depth, dom_tree, log, outcome,
                builds, passes, self_page, tree_page, fetched, suspended, co>>

\* the snapshot document being decoded, and the node row of the element
UnitDocument == snapshot[1].result.documents[1]

UnitNodeIdx == 1

\* "self._extract_computed_styles(element, node_idx, document, strings)"
ExtractStyles ==
    /\ pc = "styles"
    /\ \E style \in UnitStyleVectors, rect \in UnitRects :
          LET result == Snapshot(<<heap[dom_tree[1]].backend_node_id>>,
                                 style, rect)
          IN  /\ snapshot' = <<[raised |-> FALSE, result |-> result]>>
              /\ heap' = [heap EXCEPT ![dom_tree[1]] =
                            _extract_computed_styles(@, UnitNodeIdx,
                                result.documents[1], result.strings)]
    /\ pc' = "layout"
    /\ UNCHANGED llm
    /\ UnitUnchanged

\* "if node_idx in node_to_layout: ... self._extract_layout_data(...)"
ExtractLayout ==
    /\ pc = "layout"
    /\ LET layout_idx == node_to_layout(UnitDocument.layout.nodeIndex,
                                        UnitNodeIdx)
       IN  heap' = [heap EXCEPT ![dom_tree[1]] =
                       IF layout_idx # None
                       THEN _extract_layout_data(@, layout_idx,
                                UnitDocument.layout.bounds,
                                UnitDocument.layout.paintOrders)
                       ELSE @]
    /\ pc' = "flags"
    /\ UNCHANGED <<snapshot, llm>>
    /\ UnitUnchanged

\* "self._add_visibility_properties(element)"
AddVisibility ==
    /\ pc = "flags"
    /\ heap' = [heap EXCEPT ![dom_tree[1]] = _add_visibility_properties(@)]
    /\ pc' = "done"
    /\ UNCHANGED <<snapshot, llm>>
    /\ UnitUnchanged

\* "tree.translate_all_to_llm('json')" and its clickable and visible variants
TranslateJson ==
    /\ pc = "done"
    /\ \E which \in {"all", "clickable", "visible"} :
          llm' = <<[which |-> which,
                    elements |-> get_elements(heap, dom_tree[1], which),
                    json |-> _to_llm_json(heap, get_elements(heap, dom_tree[1],
                                                             which)),
                    csv |-> <<>>]>>
    /\ pc' = "json"
    /\ UNCHANGED <<heap, snapshot>>
    /\ UnitUnchanged

\* the same translation asked for again with format 'csv'
TranslateCsv ==
    /\ pc = "json"
    /\ llm' = <<[llm[1] EXCEPT !.csv =
                    _to_llm_csv(heap, get_elements(heap, dom_tree[1],
                                                   llm[1].which))]>>
    /\ pc' = "csv"
    /\ UNCHANGED <<heap, snapshot>>
    /\ UnitUnchanged

UnitNext ==
    ExtractStyles \/ ExtractLayout \/ AddVisibility \/ TranslateJson
    \/ TranslateCsv

UnitSpec == UnitInit /\ [][UnitNext]_vars

(***************************************************************************)
(* Repeated enrichment: enrich_dom_tree is called on a built tree several  *)
(* times, and the browser answers each snapshot request of the main        *)
(* session in its own way.  One action is one whole call.                  *)
(***************************************************************************)
PassPages ==
    { MainDoc(<<RawHtml(2, <<RawElem(20, "DIV", <<>>, <<RawText(21, <<"c">>)>>),
                             RawElem(85, "BUTTON", <<>>, <<>>)>>)>>),
      MainDoc(<<RawHtml(2, <<RawIframe(50, "A", <<InlineDoc(51, <<
                                 RawText(53, <<"i">>)>>)>>)>>)>>),
      MainDoc(<<RawHtml(2, <<RawIframe(40, "A", <<>>),
                             RawElem(22, "SPAN", <<>>, <<>>)>>)>>) }

PassStyleVectors ==
    { StyleVector(0, 1, 5, 4), <<2, 1>>, <<0, 3>>, <<-9, 1>> }

PassAnswers(h, root) ==
    LET all == find_all_elements(h, root)
        ids == [i \in 1..Len(all) |-> h[all[i]].backend_node_id]
    IN  { [raised |-> TRUE,
           result |-> [strings |-> <<>>, documents |-> <<>>]],
          [raised |-> FALSE,
           result |-> [strings |-> <<>>, documents |-> <<>>]] }
        \cup {[raised |-> FALSE, result |-> Snapshot(ids, style, rect)] :
                  style \in PassStyleVectors, rect \in UnitRects}

PassInit ==
    /\ page \in PassPages
    /\ LET s0 == [EmptySt EXCEPT !.session_frame_urls =
                     DictPut(@, MainSession, MainURL)]
           r == _traverse_node_recursive(s0, page, MainURL)
       IN  /\ heap = r.st.heap
           /\ dom_tree = r.node
           /\ log = r.st.log
           /\ processed_frames = r.st.processed_frames
           /\ processed_iframe_nodes = r.st.processed_iframe_nodes
           /\ sessions = r.st.sessions
           /\ session_frame_urls = r.st.session_frame_urls
           /\ iframe_depth = r.st.iframe_depth
           /\ outcome = [status |-> "returned", root |-> r.node,
                         error |-> "", cause |-> ""]
    /\ pc = "idle"
    /\ builds = 1
    /\ snapshot = <<>>
    /\ passes = 0
    /\ self_page = page
    /\ tree_page = <<page>>
    /\ fetched = NoFetch
    /\ suspended = <<>>
    /\ llm = <<>>
    /\ co = <<>>

\* "await enrich_dom_tree(dom_tree, sessions, session_frame_urls, ...)"
EnrichPass ==
    /\ pc = "idle"
    /\ passes < MaxPasses
    /\ passes' = passes + 1
    /\ \E answer \in PassAnswers(heap, dom_tree[1]) :
          /\ Store(IF enrich_awaits_main(St, dom_tree[1])
                   THEN enrich_from_main(St, dom_tree[1], answer)
                   ELSE enrich_rest(St, dom_tree[1]))
          /\ snapshot' = <<answer>>
    /\ UNCHANGED <<page, pc, dom_tree, outcome, builds>>
    /\ UNCHANGED beyond

PassNext == EnrichPass

PassSpec == PassInit /\ [][PassNext]_vars

(***************************************************************************)
(* DOMService.get_dom_tree and set_page.  get_dom_tree runs build_dom_tree *)
(* under asyncio.wait_for(..., timeout=30.0): the build is suspended at    *)
(* each protocol call and inside each asyncio.wait_for of                  *)
(* _process_iframe_content, and the timeout can strike at any of these     *)
(* points.  page is the document behind self.cdp_session and self_page the *)
(* document that self.page shows.                                          *)
(***************************************************************************)
ServicePages ==
    { MainDoc(<<RawHtml(2, <<RawElem(20, "DIV", <<>>, <<RawText(21, <<"c">>)>>),
                            RawElem(85, "BUTTON", <<>>, <<>>)>>)>>),
      MainDoc(<<RawHtml(2, <<RawIframe(40, "A", <<>>),
                            RawIframe(42, "B", <<>>)>>)>>),
      MainDoc(<<RawHtml(2, <<RawIframe(40, "A", <<>>),
                            RawElem(22, "SPAN", <<"id", "d">>, <<>>)>>)>>) }

\* a service on which nothing has been called yet
Fresh ==
    /\ pc = "idle"
    /\ processed_frames = {}
    /\ processed_iframe_nodes = {}
    /\ sessions = <<>>
    /\ session_frame_urls = <<>>
    /\ iframe_depth = 0
    /\ heap = <<>>
    /\ dom_tree = <<>>
    /\ log = <<>>
    /\ outcome = NoOutcome
    /\ builds = 0
    /\ snapshot = <<>>
    /\ passes = 0
    /\ self_page = page
    /\ tree_page = <<>>
    /\ fetched = NoFetch
    /\ suspended = <<>>
    /\ llm = <<>>
    /\ co = <<>>

ServiceInit == page \in ServicePages /\ Fresh

\* what get_dom_tree hands to its caller once build_dom_tree has ended
Delivered ==
    fetched' = IF pc' = "idle"
               THEN [NoFetch EXCEPT !.status = outcome'.status,
                                    !.root = outcome'.root,
                                    !.error = outcome'.error]
               ELSE fetched

\* "if self.dom_tree is None: return await asyncio.wait_for(
\* self.build_dom_tree(), timeout=30.0)", up to Target.getTargets, or
\* "return self.dom_tree"
GetDomTree ==
    /\ pc = "idle"
    /\ IF dom_tree = <<>>
       THEN /\ builds < MaxBuilds
            /\ builds' = builds + 1
            /\ processed_frames' = {}
            /\ processed_iframe_nodes' = {}
            /\ sessions' = <<>>
            /\ session_frame_urls' = <<>>
            /\ pc' = "getTargets"
            /\ outcome' = [NoOutcome EXCEPT !.status = "running"]
            /\ fetched' = [NoFetch EXCEPT !.status = "running"]
            /\ log' = <<>>
            /\ snapshot' = <<>>
       ELSE /\ fetched' = [NoFetch EXCEPT !.status = "returned",
                                          !.root = dom_tree]
            /\ UNCHANGED <<builds, processed_frames, processed_iframe_nodes,
                           sessions, session_frame_urls, pc, outcome, log,
                           snapshot>>
    /\ UNCHANGED <<page, iframe_depth, heap, dom_tree, passes, self_page,
                   tree_page, suspended, llm, co>>

\* Target.getTargets answers or fails
ServiceTargets ==
    /\ pc = "getTargets"
    /\ \E ok \in BOOLEAN :
          IF ok
          THEN /\ pc' = "getDocument"
               /\ UNCHANGED <<processed_frames, processed_iframe_nodes,
                              sessions, session_frame_urls, iframe_depth,
                              heap, log, outcome>>
          ELSE Raises(St, "CDPError")
    /\ Delivered
    /\ UNCHANGED <<page, dom_tree, builds, snapshot, passes, self_page,
                   tree_page, suspended, llm, co>>

\* the traversal r of the document is suspended in its k-th
\* asyncio.wait_for, with the service as r left it there
traversal_waits(r, document, k) ==
    /\ Store(r.st.windows[k])
    /\ pc' = "iframe"
    /\ suspended' = <<[r |-> r, document |-> document, k |-> k,
                       active |-> r.st.windows[k].active]>>
    /\ UNCHANGED <<dom_tree, outcome, tree_page>>

\* the traversal r of the document has run to its end
traversal_ends(r, document) ==
    /\ build_traversed(r)
    /\ tree_page' = IF r.node = <<>> THEN tree_page ELSE <<document>>
    /\ suspended' = <<>>

traversal_starts(r, document) ==
    IF r.st.windows = <<>> THEN traversal_ends(r, document)
    ELSE traversal_waits(r, document, 1)

service_build_from(root_node) ==
    LET document_url == IF root_node.documentURL = Absent THEN MainURL
                        ELSE root_node.documentURL
        s1 == [St EXCEPT !.session_frame_urls =
                  DictPut(@, MainSession, document_url)]
    IN  \E r \in {_traverse_node_recursive(s1, root_node, document_url)} :
            traversal_starts(r, root_node)

\* DOM.getDocument fails, answers without a root, or answers with the page;
\* the traversal runs to its first asyncio.wait_for or, without one, to the
\* snapshot request of enrichment
ServiceDocument ==
    /\ pc = "getDocument"
    /\ \/ /\ Raises(St, "CDPError")
          /\ UNCHANGED <<dom_tree, tree_page, suspended>>
       \/ /\ Raises(St, "ValueError")
          /\ UNCHANGED <<dom_tree, tree_page, suspended>>
       \/ service_build_from(page)
    /\ Delivered
    /\ UNCHANGED <<page, builds, snapshot, passes, self_page, llm, co>>

\* a wait inside asyncio.wait_for that is entered again each time it ends
IframeResumeAgain ==
    /\ pc = "iframe"
    /\ suspended' = <<[suspended[1] EXCEPT !.k = IF @ = 1 THEN 0 ELSE 1]>>
    /\ UNCHANGED <<page, pc, processed_frames, processed_iframe_nodes,
                   sessions, session_frame_urls, iframe_depth, heap, dom_tree,
                   log, outcome, builds, snapshot, passes, self_page,
                   tree_page, fetched, llm, co>>

\* the task of one asyncio.wait_for has ended: the traversal goes on to the
\* next one or to its end
IframeResume ==
    /\ pc = "iframe"
    /\ IF suspended[1].k < Len(suspended[1].r.st.windows)
       THEN traversal_waits(suspended[1].r, suspended[1].document,
                            suspended[1].k + 1)
       ELSE traversal_ends(suspended[1].r, suspended[1].document)
    /\ Delivered
    /\ UNCHANGED <<page, builds, snapshot, passes, self_page, llm, co>>

\* the main frame's snapshot request answers; enrichment runs to its end
\* and get_dom_tree returns what build_dom_tree returns
ServiceSnapshot ==
    /\ pc = "snapshot"
    /\ \E answer \in MainSnapshotAnswers(heap, dom_tree[1]) :
          /\ Store(enrich_from_main(St, dom_tree[1], answer))
          /\ snapshot' = <<answer>>
          /\ Returns(dom_tree)
    /\ Delivered
    /\ UNCHANGED <<page, dom_tree, builds, passes, self_page, tree_page,
                   suspended, llm, co>>

\* the 30 seconds are over: build_dom_tree is cancelled where it waits.
\* CancelledError is no Exception, so only the finally clause of each
\* _process_iframe_content in progress runs, and wait_for raises
\* TimeoutError to the caller of get_dom_tree
Timeout ==
    /\ pc \in {"getTargets", "getDocument", "iframe", "snapshot"}
    /\ iframe_depth' = IF pc = "iframe"
                       THEN iframe_depth - suspended[1].active
                       ELSE iframe_depth
    /\ pc' = "idle"
    /\ outcome' = [NoOutcome EXCEPT !.status = "cancelled"]
    /\ fetched' = [NoFetch EXCEPT !.status = "raised",
                                  !.error = "TimeoutError", !.at = pc]
    /\ suspended' = <<>>
    /\ UNCHANGED <<page, processed_frames, processed_iframe_nodes, sessions,
                   session_frame_urls, heap, dom_tree, log, builds, snapshot,
                   passes, self_page, tree_page, llm, co>>

\* "self.page = page; self.cdp_session = await
\* page.context.new_cdp_session(page)", called while no build is running;
\* the session is opened or the call raises
SetPage ==
    /\ pc = "idle"
    /\ \E new \in ServicePages, ok \in BOOLEAN :
          /\ self_page' = new
          /\ page' = IF ok THEN new ELSE page
    /\ fetched' = NoFetch
    /\ UNCHANGED <<pc, processed_frames, processed_iframe_nodes, sessions,
                   session_frame_urls, iframe_depth, heap, dom_tree, log,
                   outcome, builds, snapshot, passes, tree_page, suspended,
                   llm, co>>

ServiceNext ==
    \/ GetDomTree
    \/ ServiceTargets
    \/ ServiceDocument
    \/ IframeResume
    \/ ServiceSnapshot
    \/ Timeout
    \/ SetPage

ServiceSpec == ServiceInit /\ [][ServiceNext]_vars

(***************************************************************************)
(* Termination of a build.  The pages embed frames in a cycle (a frame     *)
(* whose src is the page's own URL), the same frame twice, frames inside   *)
(* an element and inline documents four levels deep.  Every protocol call  *)
(* and every asyncio.wait_for eventually answers, fails or times out, so   *)
(* each step that resumes the build is taken once it stays possible;       *)
(* nothing is assumed about the callers of get_dom_tree and set_page or    *)
(* about the overall timeout.                                              *)
(***************************************************************************)
LivePages ==
    { MainDoc(<<RawHtml(2, <<RawIframe(41, MainURL, <<>>),
                            RawIframe(40, "A", <<>>)>>)>>),
      MainDoc(<<RawHtml(2, <<RawIframe(40, "A", <<>>),
                            RawElem(47, "DIV", <<>>,
                                    <<RawIframe(48, "B", <<>>),
                                      RawIframe(46, "A", <<>>)>>)>>)>>),
      MainDoc(<<RawHtml(2, <<InlineChain4, RawIframe(41, MainURL, <<>>)>>)>>) }

LiveInit == page \in LivePages /\ Fresh

LiveSpec ==
    /\ LiveInit
    /\ [][ServiceNext]_vars
    /\ WF_vars(ServiceTargets)
    /\ WF_vars(ServiceDocument)
    /\ WF_vars(IframeResume)
    /\ WF_vars(ServiceSnapshot)

(***************************************************************************)
(* Two build_dom_tree calls on one DOMService whose lifetimes overlap.     *)
(* Each call is a coroutine of its own: co[c] holds its position and its   *)
(* local variables (root_element, and main_frame_url of enrich_dom_tree);  *)
(* the fields of the service and the nodes are shared.  The pages hold no  *)
(* frame to resolve, so a build is suspended at its three protocol calls   *)
(* and nowhere else.                                                       *)
(***************************************************************************)
Coroutines == {1, 2}

ConcPages ==
    { MainDoc(<<RawHtml(2, <<RawElem(20, "DIV", <<>>, <<RawText(21, <<"c">>)>>),
                            RawElem(85, "BUTTON", <<>>, <<>>)>>)>>),
      MainDoc(<<RawHtml(2, <<RawIframe(50, "A", <<InlineDoc(51, <<
                                RawText(53, <<"i">>)>>)>>)>>)>>) }

ConcAnswers(h, root) ==
    LET all == find_all_elements(h, root)
        ids == [i \in 1..Len(all) |-> h[all[i]].backend_node_id]
    IN  { [raised |-> TRUE,
           result |-> [strings |-> <<>>, documents |-> <<>>]],
          [raised |-> FALSE,
           result |-> Snapshot(ids, StyleVector(0, 1, 5, 4), <<0, 0, 10, 10>>)],
          [raised |-> FALSE,
           result |-> Snapshot(ids, <<2, 1>>, <<0, 0, 10, 10>>)] }

NotCalled == [pc |-> "new", root |-> <<>>, main_frame_url |-> "",
              outcome |-> NoOutcome]

ConcInit ==
    /\ page \in ConcPages
    /\ pc = "idle"
    /\ processed_frames = {}
    /\ processed_iframe_nodes = {}
    /\ sessions = <<>>
    /\ session_frame_urls = <<>>
    /\ iframe_depth = 0
    /\ heap = <<>>
    /\ dom_tree = <<>>
    /\ log = <<>>
    /\ outcome = NoOutcome
    /\ builds = 0
    /\ snapshot = <<>>
    /\ passes = 0
    /\ self_page = page
    /\ tree_page = <<>>
    /\ fetched = NoFetch
    /\ suspended = <<>>
    /\ llm = <<>>
    /\ co = [c \in Coroutines |-> NotCalled]

ConcUnchanged ==
    UNCHANGED <<page, pc, outcome, builds, snapshot, passes, self_page,
                tree_page, fetched, suspended, llm>>

\* coroutine c ends with "return self.dom_tree", the field as it is now
conc_returns(c, tree) ==
    co' = [co EXCEPT ![c].pc = "done",
                     ![c].outcome = [NoOutcome EXCEPT !.status = "returned",
                                                      !.root = tree]]

\* coroutine c ends in "except Exception as e: ... raise RuntimeError"
conc_raises(c, st, cause) ==
    /\ Store(Log(st, "error", "build", None, cause))
    /\ co' = [co EXCEPT ![c].pc = "done",
                        ![c].outcome = [NoOutcome EXCEPT
                                           !.status = "raised",
                                           !.error = "RuntimeError",
                                           !.cause = cause]]

\* build_dom_tree is called: "Reset state", then Target.getTargets is sent
ConcCall(c) ==
    /\ co[c].pc = "new"
    /\ processed_frames' = {}
    /\ processed_iframe_nodes' = {}
    /\ sessions' = <<>>
    /\ session_frame_urls' = <<>>
    /\ co' = [co EXCEPT ![c].pc = "getTargets",
                        ![c].outcome = [NoOutcome EXCEPT !.status = "running"]]
    /\ UNCHANGED <<iframe_depth, heap, dom_tree, log>>
    /\ ConcUnchanged

\* Target.getTargets answers or fails
ConcTargets(c) ==
    /\ co[c].pc = "getTargets"
    /\ \E ok \in BOOLEAN :
          IF ok
          THEN /\ co' = [co EXCEPT ![c].pc = "getDocument"]
               /\ UNCHANGED <<processed_frames, processed_iframe_nodes,
                              sessions, session_frame_urls, iframe_depth,
                              heap, log>>
          ELSE conc_raises(c, St, "CDPError")
    /\ UNCHANGED dom_tree
    /\ ConcUnchanged

\* the tree of coroutine c is built and enrichment runs up to its first
\* snapshot request
conc_traversed(c, r) ==
    IF r.node = <<>>
    THEN conc_raises(c, r.st, "ValueError") /\ UNCHANGED dom_tree
    ELSE /\ dom_tree' = r.node
         /\ IF enrich_awaits_main(r.st, r.node[1])
            THEN /\ Store(r.st)
                 /\ co' = [co EXCEPT ![c].pc = "snapshot",
                                     ![c].root = r.node,
                                     ![c].main_frame_url =
                                         main_frame_url(r.st)]
            ELSE /\ Store(IF r.st.heap[r.node[1]].kind = "element"
                          THEN enrich_rest(r.st, r.node[1])
                          ELSE enrich_fails(r.st))
                 /\ co' = [co EXCEPT
                             ![c].pc = "done",
                             ![c].root = r.node,
                             ![c].outcome = [NoOutcome EXCEPT
                                                !.status = "returned",
                                                !.root = r.node]]

conc_build_from(c, root_node) ==
    LET document_url == IF root_node.documentURL = Absent THEN MainURL
                        ELSE root_node.documentURL
        s1 == [St EXCEPT !.session_frame_urls =
                  DictPut(@, MainSession, document_url)]
    IN  conc_traversed(c, _traverse_node_recursive(s1, root_node,
                                                   document_url))

\* DOM.getDocument fails or answers with the page
ConcDocument(c) ==
    /\ co[c].pc = "getDocument"
    /\ \E answer \in {"raise", "root"} :
          CASE answer = "raise" ->
                   conc_raises(c, St, "CDPError") /\ UNCHANGED dom_tree
            [] answer = "root" -> conc_build_from(c, page)
    /\ ConcUnchanged

\* "Check for unenriched iframe elements": main_frame_url is the local that
\* enrich_dom_tree read before it was suspended, session_frame_urls the dict
\* as it is now
enrich_resumed_lazily(st, all_elements, main_url) ==
    LET enriched_urls == {main_url} \cup
            {st.session_frame_urls[x] : x \in DOMAIN st.session_frame_urls}
        unenriched_frame_urls ==
            SelectSeq(frame_keys(st.heap, all_elements, {}),
                      LAMBDA u : u \notin enriched_urls /\ u # "unknown")
    IN  enrich_unenriched(st, all_elements, unenriched_frame_urls)

\* enrich_dom_tree of the tree at root from the main frame's snapshot
\* answer to its end
enrich_resumed(st, root, answer, main_url) ==
    enrich_resumed_lazily(
        enrich_known_sessions(
            _enrich_session_nodes(st, main_url,
                elements_by_frame_and_backend(st.heap,
                    find_all_elements(st.heap, root), main_url),
                answer),
            find_all_elements(st.heap, root),
            {st.sessions[k] : k \in DOMAIN st.sessions}),
        find_all_elements(st.heap, root), main_url)

\* the snapshot request of coroutine c answers; its enrichment runs to its
\* end and the coroutine returns self.dom_tree
ConcSnapshot(c) ==
    /\ co[c].pc = "snapshot"
    /\ \E answer \in ConcAnswers(heap, co[c].root[1]) :
          Store(enrich_resumed(St, co[c].root[1], answer,
                               co[c].main_frame_url))
    /\ conc_returns(c, dom_tree)
    /\ UNCHANGED dom_tree
    /\ ConcUnchanged

ConcNext ==
    \E c \in Coroutines :
        \/ ConcCall(c)
        \/ ConcTargets(c)
        \/ ConcDocument(c)
        \/ ConcSnapshot(c)

ConcSpec == ConcInit /\ [][ConcNext]_vars

(***************************************************************************)
(* Vocabulary of the properties.                                           *)
(***************************************************************************)
\* the call has returned a tree
Built == pc = "idle" /\ outcome.status = "returned"

RECURSIVE Subtree(_, _)
Subtree(h, n) ==
    {n} \cup (IF h[n].kind = "element"
              THEN UNION {Subtree(h, h[n].children[i]) :
                              i \in 1..Len(h[n].children)}
              ELSE {})

TreeNodes == Subtree(heap, outcome.root[1])

TreeElements == {n \in TreeNodes : heap[n].kind = "element"}

RECURSIVE Ancestors(_, _)
Ancestors(h, n) ==
    IF h[n].parent = 0 THEN {}
    ELSE {h[n].parent} \cup Ancestors(h, h[n].parent)

\* every raw node of a response, in document order
RECURSIVE RawList(_)
RECURSIVE RawListAll(_)
RawList(r) ==
    <<r>> \o RawListAll(r.children) \o RawListAll(r.shadowRoots)
          \o RawListAll(r.contentDocument)

RawListAll(rs) ==
    IF rs = <<>> THEN <<>> ELSE RawList(Head(rs)) \o RawListAll(Tail(rs))

RawNodes(doc) == {RawList(doc)[i] : i \in 1..Len(RawList(doc))}

DistinctBackendIds(doc) ==
    LET l == RawList(doc)
    IN  \A i, j \in 1..Len(l) :
            i < j /\ l[i].backendNodeId # None
                => l[i].backendNodeId # l[j].backendNodeId

\* the documents fetched by the build: the page's, and one per frame session
FetchedDocuments ==
    {page} \cup {FrameDoc(sessions[u].frame) : u \in DOMAIN sessions}

\* the raw nodes a tree node may have been built from
RawFor(n) ==
    {r \in UNION {RawNodes(d) : d \in FetchedDocuments} :
        /\ r.nodeId = heap[n].node_id
        /\ r.backendNodeId = heap[n].backend_node_id}

Logged(ats) == {i \in 1..Len(log) : log[i].at \in ats}

(***************************************************************************)
(* C1: build_dom_tree ends in one of two ways: it returns a tree whose     *)
(* root is set and whose nodes all carry a node id and a backend id, or it *)
(* raises a RuntimeError wrapping its cause; and once the tree exists      *)
(* (enrichment has started) the call can only return.                      *)
(***************************************************************************)
C1_Outcome ==
    (pc = "idle" /\ builds > 0) =>
        \/ /\ outcome.status = "returned"
           /\ outcome.root # <<>>
           /\ outcome.error = ""
           /\ \A n \in TreeNodes :
                  heap[n].node_id # None /\ heap[n].backend_node_id # None
        \/ /\ outcome.status = "raised"
           /\ outcome.root = <<>>
           /\ outcome.error = "RuntimeError"
           /\ outcome.cause \in {"ValueError", "CDPError"}

C1_EnrichmentCannotFailTheBuild ==
    (dom_tree' # dom_tree \/ pc = "snapshot")
        => (pc' = "snapshot" \/ outcome'.status = "returned")

C1_TwoOutcomes ==
    [] C1_Outcome /\ [][C1_EnrichmentCannotFailTheBuild]_vars

\* a build that met a node without backend id, whose enrichment failed, and
\* that returned
C1_Witness ==
    /\ Built
    /\ Logged({"traverse: no backendNodeId"}) # {}
    /\ Logged({"enrich_session"}) # {}
    /\ Cardinality(TreeNodes) > 1

(***************************************************************************)
(* C2: after a successful build, if the nodes of every fetched document    *)
(* have pairwise distinct backend ids, no two distinct elements of the     *)
(* tree have the same (frame_url, backend_node_id).                        *)
(***************************************************************************)
C2_UniqueIdentity ==
    (Built /\ \A d \in FetchedDocuments : DistinctBackendIds(d)) =>
        \A a, b \in TreeElements :
            a # b => <<heap[a].frame_url, heap[a].backend_node_id>>
                         # <<heap[b].frame_url, heap[b].backend_node_id>>

\* a tree with an iframe holding an embedded document and an iframe that
\* carries another frame key
C2_Witness ==
    /\ Built
    /\ DistinctBackendIds(page)
    /\ \E e, f \in TreeElements :
          /\ heap[e].tag = "iframe" /\ heap[e].children # <<>>
          /\ heap[f].tag = "iframe" /\ heap[f].frame_url # heap[e].frame_url

(***************************************************************************)
(* C3: a raw node met during traversal without node id or backend id       *)
(* makes build_dom_tree raise instead of returning a tree.                 *)
(***************************************************************************)
C3_MissingIdentityAborts ==
    (pc = "idle"
     /\ Logged({"traverse: no node_id", "traverse: no backendNodeId"}) # {})
        => outcome.status = "raised"

(***************************************************************************)
(* C4: the root of a returned tree is the element built from the first     *)
(* Element-kind child of the main document node, with that child's         *)
(* lowercased tag.                                                         *)
(***************************************************************************)
C4_RootIsFirstElementChild ==
    Built =>
        \E i \in 1..Len(page.children) :
            /\ page.children[i].nodeType = ELEMENT
            /\ \A j \in 1..(i - 1) : page.children[j].nodeType # ELEMENT
            /\ heap[outcome.root[1]].kind = "element"
            /\ heap[outcome.root[1]].node_id = page.children[i].nodeId
            /\ heap[outcome.root[1]].backend_node_id
                   = page.children[i].backendNodeId
            /\ heap[outcome.root[1]].tag = lower(page.children[i].nodeName)

(***************************************************************************)
(* C5: an iframe with a non-empty src and no inline content document,      *)
(* whose frame key was not visited before, nested below the depth limit,   *)
(* for which a live frame matches and session and document fetch succeed,  *)
(* ends with the root element of the fetched document as its child, under  *)
(* the fetched document's frame key.                                       *)
(***************************************************************************)
Src(e) == DictGet(heap[e].attributes, "src", "")

NoInlineDocument(e) == \A r \in RawFor(e) : r.contentDocument = <<>>

LiveFrame(url) ==
    /\ \E i \in 1..Len(PageFrames) : PageFrames[i] = url
    /\ SessionOpenAnswer(url) = "ok"
    /\ FrameDocAnswer(url) = "ok"

IframeLevel(n) ==
    Cardinality({a \in Ancestors(heap, n) : heap[a].tag = "iframe"})

FirstVisit(e) ==
    \A f \in TreeElements :
        (f < e /\ heap[f].tag = "iframe" /\ NoInlineDocument(f))
            => /\ Src(f) # Src(e)
               /\ heap[f].backend_node_id # heap[e].backend_node_id

C5_LiveFrameIsEmbedded ==
    Built =>
        \A e \in TreeElements :
            ( /\ heap[e].tag = "iframe"
              /\ Src(e) # ""
              /\ NoInlineDocument(e)
              /\ FirstVisit(e)
              /\ IframeLevel(e) < max_iframe_depth
              /\ LiveFrame(Src(e)) )
            => /\ heap[e].children # <<>>
               /\ LET c == heap[e].children[Len(heap[e].children)]
                      doc == FrameDoc(Src(e))
                  IN  /\ heap[c].kind = "element"
                      /\ heap[c].frame_url = doc.documentURL
                      /\ \E i \in 1..Len(doc.children) :
                             /\ heap[c].node_id = doc.children[i].nodeId
                             /\ heap[c].backend_node_id
                                    = doc.children[i].backendNodeId

(***************************************************************************)
(* What the source order of a raw node's children prescribes.              *)
(***************************************************************************)
Elems(q) == {q[i] : i \in 1..Len(q)}

NonBlank(v) == \E i \in 1..Len(v) : v[i] \notin Whitespace

\* the raw node yields a tree node
Kept(r) ==
    /\ r.nodeId # None
    /\ r.backendNodeId # None
    /\ \/ r.nodeType = ELEMENT
       \/ r.nodeType = TEXT /\ NonBlank(r.nodeValue)

Ident(r) == <<r.nodeId, r.backendNodeId>>

NodeIdent(n) == <<heap[n].node_id, heap[n].backend_node_id>>

ChildIdents(e) ==
    [i \in 1..Len(heap[e].children) |-> NodeIdent(heap[e].children[i])]

RECURSIVE KeptIdents(_)
KeptIdents(rs) ==
    IF rs = <<>> THEN <<>>
    ELSE (IF Kept(Head(rs)) THEN <<Ident(Head(rs))>> ELSE <<>>)
             \o KeptIdents(Tail(rs))

\* the children of every shadow-root entry
RECURSIVE ShadowChildrenIdents(_)
ShadowChildrenIdents(srs) ==
    IF srs = <<>> THEN <<>>
    ELSE KeptIdents(Head(srs).children) \o ShadowChildrenIdents(Tail(srs))

\* the children of a Fragment entry, any other entry itself
RECURSIVE ShadowEntryIdents(_)
ShadowEntryIdents(srs) ==
    IF srs = <<>> THEN <<>>
    ELSE (IF Head(srs).nodeType = DOCUMENT_FRAGMENT
          THEN KeptIdents(Head(srs).children)
          ELSE KeptIdents(<<Head(srs)>>))
             \o ShadowEntryIdents(Tail(srs))

\* the root a document contributes: its first kept child
DocRootIdents(doc) ==
    IF doc.nodeId = None \/ doc.backendNodeId = None THEN <<>>
    ELSE IF KeptIdents(doc.children) = <<>> THEN <<>>
    ELSE <<KeptIdents(doc.children)[1]>>

\* the embedded roots an iframe element may end with
EmbeddedRoots(e, r) ==
    IF heap[e].tag # "iframe" THEN {}
    ELSE IF r.contentDocument # <<>>
    THEN {DocRootIdents(r.contentDocument[1])}
    ELSE {DocRootIdents(FrameDoc(sessions[u].frame)) : u \in DOMAIN sessions}

OwnIdents(r) == KeptIdents(r.children) \o ShadowEntryIdents(r.shadowRoots)

NoEmbeddedChild(e) ==
    RawFor(e) # {} /\ \A r \in RawFor(e) : ChildIdents(e) = OwnIdents(r)

ChildrenFollowSource(e, Shadow(_)) ==
    /\ RawFor(e) # {}
    /\ \A r \in RawFor(e) :
          \E rest \in {<<>>} \cup EmbeddedRoots(e, r) :
              ChildIdents(e)
                  = KeptIdents(r.children) \o Shadow(r.shadowRoots) \o rest

(***************************************************************************)
(* C6: when resolving the frame, opening its session or fetching its       *)
(* document fails, the iframe element stays in the tree without embedded   *)
(* child, the build returns, and the nodes around the iframe are the ones  *)
(* the source prescribes.                                                  *)
(***************************************************************************)
IframeFailures == Logged({"playwright", "no_session", "no_root"})

C6_FailedIframeIsKeptEmpty ==
    (pc = "idle" /\ IframeFailures # {}) =>
        /\ Built
        /\ \A i \in IframeFailures :
              \E e \in TreeElements :
                  /\ heap[e].tag = "iframe"
                  /\ heap[e].node_id = log[i].node
                  /\ heap[e].frame_url = log[i].url
                  /\ NoEmbeddedChild(e)
                  /\ heap[e].parent # 0
                        => ChildrenFollowSource(heap[e].parent,
                                                ShadowEntryIdents)

\* a returned tree in which a failed iframe is followed by a sibling
C6_Witness ==
    /\ Built
    /\ \E i \in IframeFailures :
          \E e \in TreeElements :
              /\ heap[e].tag = "iframe"
              /\ heap[e].node_id = log[i].node
              /\ heap[e].children = <<>>
              /\ heap[e].parent # 0
              /\ LET sibs == heap[heap[e].parent].children
                 IN  sibs[Len(sibs)] # e

(***************************************************************************)
(* C7: a page with a chain of four nested iframes is returned with exactly *)
(* three levels of embedded iframe content and with the fourth iframe      *)
(* element present without children.                                       *)
(***************************************************************************)
Chain4Pages ==
    { MainDoc(<<RawHtml(2, <<InlineChain4>>)>>),
      MainDoc(<<RawHtml(2, <<RawIframe(40, "A", <<>>)>>)>>) }

C7_ThreeLevelsOfFour ==
    (Built /\ page \in Chain4Pages) =>
        /\ \A n \in TreeNodes : IframeLevel(n) <= max_iframe_depth
        /\ \E n \in TreeNodes : IframeLevel(n) = max_iframe_depth
        /\ \E e \in TreeElements :
              /\ heap[e].tag = "iframe"
              /\ IframeLevel(e) = max_iframe_depth
              /\ heap[e].children = <<>>

(***************************************************************************)
(* C8: an iframe whose frame key equals the frame key of a frame above it  *)
(* (the main frame included) has no embedded child, and no node of a       *)
(* frame's document occurs twice along one chain of ancestors.             *)
(***************************************************************************)
MainKey == IF page.documentURL = Absent THEN MainURL ELSE page.documentURL

KeysAbove(e) == {heap[a].frame_url : a \in Ancestors(heap, e)} \cup {MainKey}

C8_NoFrameRevisit ==
    Built =>
        /\ \A e \in TreeElements :
              (heap[e].tag = "iframe" /\ NoInlineDocument(e)
               /\ Src(e) \in KeysAbove(e))
                  => NoEmbeddedChild(e)
        /\ \A n \in TreeNodes : \A a \in Ancestors(heap, n) :
              ~ /\ NodeIdent(a) = NodeIdent(n)
                /\ heap[a].frame_url = heap[n].frame_url

\* an iframe that points at the main frame, met by the traversal and left
\* without children
C8_Witness ==
    /\ Built
    /\ \E e \in TreeElements :
          /\ heap[e].tag = "iframe"
          /\ NoInlineDocument(e)
          /\ Src(e) = MainKey
          /\ heap[e].backend_node_id \in processed_iframe_nodes
          /\ heap[e].children = <<>>

(***************************************************************************)
(* C9: every node of a returned tree is an element built from an           *)
(* Element-kind raw node or a text node built from a Text-kind raw node    *)
(* whose value is non-empty after trimming; Document, Doctype, Comment and *)
(* Fragment raw nodes have no node, so that the tree parent of a node is   *)
(* the element of its raw parent, of its shadow host or of its iframe.     *)
(***************************************************************************)
RawChildOf(r, rp) ==
    \/ r \in Elems(rp.children)
    \/ \E sr \in Elems(rp.shadowRoots) :
          IF sr.nodeType = DOCUMENT_FRAGMENT THEN r \in Elems(sr.children)
          ELSE r = sr
    \/ rp.contentDocument # <<>> /\ r \in Elems(rp.contentDocument[1].children)
    \/ \E u \in DOMAIN sessions :
          r \in Elems(FrameDoc(sessions[u].frame).children)

C9_OnlyElementsAndText ==
    Built =>
        \A n \in TreeNodes :
            /\ RawFor(n) # {}
            /\ \A r \in RawFor(n) :
                  \/ heap[n].kind = "element" /\ r.nodeType = ELEMENT
                  \/ /\ heap[n].kind = "text"
                     /\ r.nodeType = TEXT
                     /\ NonBlank(r.nodeValue)
                     /\ heap[n].text # <<>>
            /\ heap[n].parent # 0 =>
                  \E r \in RawFor(n) : \E rp \in RawFor(heap[n].parent) :
                      RawChildOf(r, rp)

\* a host element whose children include a node of its shadow root, built
\* from a page that also held a Fragment raw node
C9_Witness ==
    /\ Built
    /\ \E e \in TreeElements : \E r \in RawFor(e) :
          \E sr \in Elems(r.shadowRoots) :
              /\ sr.nodeType = DOCUMENT_FRAGMENT
              /\ \E c \in Elems(sr.children) :
                    \E k \in Elems(heap[e].children) :
                        NodeIdent(k) = Ident(c)

(***************************************************************************)
(* C10 as stated: an element's children are the non-dropped results of its *)
(* raw children in source order, then those of its shadow roots' children, *)
(* then the embedded document's root; appended nodes stay where they are.  *)
(***************************************************************************)
C10_AppendOnly ==
    \A n \in 1..Len(heap) :
        /\ n <= Len(heap')
        /\ heap'[n].parent = heap[n].parent
        /\ heap[n].kind = "element" =>
              heap'[n].children = heap[n].children

C10_ShadowRootsFlattened ==
    Built =>
        \A e \in TreeElements : ChildrenFollowSource(e, ShadowChildrenIdents)

C10_AsStated == [] C10_ShadowRootsFlattened /\ [][C10_AppendOnly]_vars

(***************************************************************************)
(* C10, amended: an element's children are the non-dropped results of its  *)
(* raw children in source order, then for each entry of its shadow-root    *)
(* list the non-dropped results of the entry's children when the entry is  *)
(* a Fragment, the entry's own result otherwise, then the embedded         *)
(* document's root; appended nodes stay where they are.                    *)
(***************************************************************************)
C10_ShadowEntriesInOrder ==
    Built =>
        \A e \in TreeElements : ChildrenFollowSource(e, ShadowEntryIdents)

C10_ChildOrder == [] C10_ShadowEntriesInOrder /\ [][C10_AppendOnly]_vars

\* a host with a non-Fragment shadow-root entry, which is its child
C10_Witness ==
    /\ Built
    /\ \E e \in TreeElements : \E r \in RawFor(e) :
          \E sr \in Elems(r.shadowRoots) :
              /\ sr.nodeType # DOCUMENT_FRAGMENT
              /\ \E k \in Elems(heap[e].children) : NodeIdent(k) = Ident(sr)

(***************************************************************************)
(* C11: in a built tree every element's text_content is the texts of its   *)
(* immediate text-node children, in child order, joined by single spaces,  *)
(* the text children spliced in from shadow roots included; and no text    *)
(* node has children.                                                      *)
(***************************************************************************)
RECURSIVE JoinTexts(_)
JoinTexts(texts) ==
    IF texts = <<>> THEN <<>>
    ELSE IF Len(texts) = 1 THEN texts[1]
    ELSE texts[1] \o <<" ">> \o JoinTexts(Tail(texts))

TextChildren(e) ==
    LET kids == SelectSeq(heap[e].children, LAMBDA k : heap[k].kind = "text")
    IN  [i \in 1..Len(kids) |-> heap[kids[i]].text]

C11_TextContentIsJoinedText ==
    Built =>
        /\ \A e \in TreeElements :
              heap[e].text_content = JoinTexts(TextChildren(e))
        /\ \A n \in TreeNodes :
              heap[n].kind = "text" => "children" \notin DOMAIN heap[n]

(***************************************************************************)
(* C12: in a built tree the root's parent is unset, every other node's     *)
(* parent is the element whose children list contains it, and every node   *)
(* other than the root occurs in exactly one children list, exactly once;  *)
(* the root of a document embedded under an iframe is no exception.        *)
(***************************************************************************)
Occurrences(n) ==
    {<<e, i>> \in TreeElements \X (1..Len(heap)) :
        i <= Len(heap[e].children) /\ heap[e].children[i] = n}

C12_ParentMatchesChildren ==
    Built =>
        /\ heap[outcome.root[1]].parent = 0
        /\ \A n \in TreeNodes \ {outcome.root[1]} :
              /\ Cardinality(Occurrences(n)) = 1
              /\ \E o \in Occurrences(n) : heap[n].parent = o[1]

\* an iframe with an embedded document root below it, and a text child of
\* that root
C12_Witness ==
    /\ Built
    /\ \E e \in TreeElements : \E k \in Elems(heap[e].children) :
          /\ heap[e].tag = "iframe"
          /\ heap[k].kind = "element"
          /\ heap[k].parent = e
          /\ \E t \in Elems(heap[k].children) :
                heap[t].kind = "text" /\ heap[t].parent = k

(***************************************************************************)
(* C13: when the snapshot request, its decoding or the session of one      *)
(* frame fails, enrich_dom_tree still completes without raising, every     *)
(* other frame is still attempted, and the elements of a frame whose       *)
(* snapshot succeeded carry exactly what that snapshot says about them.    *)
(***************************************************************************)
OtherFrameKeys ==
    {heap[e].frame_url : e \in TreeElements} \ {MainKey, "unknown"}

FrameFailures(key) ==
    {i \in Logged({"enrich_session", "lazy_session"}) : log[i].url = key}

RowBackendId(doc, i) ==
    PyAt(doc.nodes.backendNodeId, doc.layout.nodeIndex[i])

\* the element of the main frame that row i of the layout section is about,
\* when no later row and no other element carries the same backend id
RowElements(doc, i) ==
    {e \in TreeElements :
        /\ heap[e].frame_url = MainKey
        /\ heap[e].backend_node_id = RowBackendId(doc, i)
        /\ \A o \in TreeElements \ {e} :
               heap[o].frame_url = MainKey
                   => heap[o].backend_node_id # heap[e].backend_node_id
        /\ \A j \in (i + 1)..Len(doc.layout.nodeIndex) :
               RowBackendId(doc, j) # RowBackendId(doc, i)}

MainFrameEnriched ==
    \A d \in 1..Len(snapshot[1].result.documents) :
        LET doc == snapshot[1].result.documents[d]
        IN  \A i \in 1..Len(doc.layout.nodeIndex) :
                \A e \in RowElements(doc, i) :
                    /\ heap[e].bounding_box =
                          <<[x |-> doc.layout.bounds[i][1],
                             y |-> doc.layout.bounds[i][2],
                             width |-> doc.layout.bounds[i][3],
                             height |-> doc.layout.bounds[i][4]]>>
                    /\ heap[e].paint_order = <<doc.layout.paintOrders[i]>>
                    /\ heap[e].is_visible =
                          <<is_visible_element(heap[e])>>
                    /\ heap[e].is_interactive =
                          <<is_interactive_element(heap[e])>>

Enrichment(e) ==
    <<e.computed_styles, e.bounding_box, e.paint_order, e.is_visible,
      e.is_interactive>>

C15_SecondPass ==
    passes' = passes + 1 =>
        /\ sessions' = sessions
        /\ Len(heap') = Len(heap)
        /\ \A n \in 1..Len(heap) :
              heap[n].kind = "element" =>
                  Enrichment(heap'[n]) = Enrichment(heap[n])

C15_EnrichmentIsIdempotent == [][C15_SecondPass]_vars

\* a second pass has run over a tree whose elements the first pass gave
\* styles, a box and both flags
C15_Witness ==
    /\ Built
    /\ passes >= 1
    /\ snapshot # <<>>
    /\ ~snapshot[1].raised
    /\ \E e \in TreeElements :
          /\ DOMAIN heap[e].computed_styles # {}
          /\ heap[e].bounding_box # <<>>
          /\ heap[e].is_visible = <<TRUE>>
          /\ heap[e].is_interactive = <<TRUE>>

(***************************************************************************)
(* C14: decoding the style vector of a matched element sets                *)
(* computed_styles[name_i] to the string-table entry at v_i for every      *)
(* position i of the vector, name_i being the i-th requested style name,   *)
(* and sets no other key.  The vectors are those whose values are          *)
(* positions of the string table.                                          *)
(***************************************************************************)
Unit == heap[dom_tree[1]]

Style(e, name) == DictGet(e.computed_styles, name, Absent)

DecodedVector == UnitDocument.layout.styles[1]

TablePositions(vector, strings) ==
    \A i \in 1..Len(vector) : vector[i] >= 0 /\ vector[i] < Len(strings)

NamedPositions(vector) ==
    {i \in 1..Len(vector) : i <= Len(USEFUL_COMPUTED_STYLES)}

C14_PositionalDecoding ==
    (snapshot # <<>>
     /\ TablePositions(DecodedVector, snapshot[1].result.strings)) =>
        /\ DOMAIN Unit.computed_styles =
              {USEFUL_COMPUTED_STYLES[i] : i \in NamedPositions(DecodedVector)}
        /\ \A i \in NamedPositions(DecodedVector) :
              Unit.computed_styles[USEFUL_COMPUTED_STYLES[i]] =
                  snapshot[1].result.strings[DecodedVector[i] + 1]

\* a vector longer than the list of names has been decoded
C14_Witness ==
    /\ snapshot # <<>>
    /\ TablePositions(DecodedVector, snapshot[1].result.strings)
    /\ Len(DecodedVector) > Len(USEFUL_COMPUTED_STYLES)
    /\ Style(Unit, "display") = "block"
    /\ Style(Unit, "padding") = "auto"

(***************************************************************************)
(* C16: is_visible_element(e) is true exactly when e is an element, its    *)
(* computed display is not "none", its computed visibility is not          *)
(* "hidden", and it has a layout rectangle with width > 0 and height > 0.  *)
(***************************************************************************)
VisibleAsStated(e) ==
    /\ e.kind = "element"
    /\ Style(e, "display") # "none"
    /\ Style(e, "visibility") # "hidden"
    /\ \E box \in Elems(e.bounding_box) : box.width > 0 /\ box.height > 0

C16_VisibleExactlyWhen ==
    /\ \A n \in 1..Len(heap) :
          is_visible_element(heap[n]) = VisibleAsStated(heap[n])
    /\ pc = "done" => Unit.is_visible = <<VisibleAsStated(Unit)>>

\* a visible element next to its text child, which is not visible
C16_Witness ==
    /\ pc = "done"
    /\ Unit.is_visible = <<TRUE>>
    /\ \E n \in 1..Len(heap) :
          heap[n].kind = "text" /\ ~is_visible_element(heap[n])

(***************************************************************************)
(* C17: is_interactive_element is false whenever the computed              *)
(* pointer-events is "none", whatever else the element carries.            *)
(***************************************************************************)
C17_PointerEventsGate ==
    /\ \A n \in 1..Len(heap) :
          (heap[n].kind = "element"
           /\ Style(heap[n], "pointer-events") = "none")
              => ~is_interactive_element(heap[n])
    /\ (pc = "done" /\ Style(Unit, "pointer-events") = "none")
          => Unit.is_interactive = <<FALSE>>

\* a link with a real href and a pointer cursor, rejected by the gate
C17_Witness ==
    /\ pc = "done"
    /\ Unit.tag = "a"
    /\ DictGet(Unit.attributes, "href", "") = "/x"
    /\ Style(Unit, "cursor") = "pointer"
    /\ Style(Unit, "pointer-events") = "none"
    /\ Unit.is_interactive = <<FALSE>>

(***************************************************************************)
(* C18 as stated: is_interactive_element is true for every non-root        *)
(* element whose cursor is "pointer", and false for the root element with  *)
(* that cursor and no other marker.                                        *)
(***************************************************************************)
C18_PointerCursorAsStated ==
    Built =>
        \A e \in TreeElements :
            Style(heap[e], "cursor") = "pointer" =>
                is_interactive_element(heap[e]) = (e # outcome.root[1])

(***************************************************************************)
(* C18, amended: an element other than an html element whose cursor is     *)
(* "pointer" and whose pointer-events is not "none" is interactive, with   *)
(* no other marker needed; an html element (the root element of a          *)
(* document, embedded ones included) with that cursor and no attribute is  *)
(* not.                                                                    *)
(***************************************************************************)
C18_PointerCursor ==
    Built =>
        \A e \in TreeElements :
            Style(heap[e], "cursor") = "pointer" =>
                /\ (heap[e].tag # "html"
                    /\ Style(heap[e], "pointer-events") # "none")
                      => /\ is_interactive_element(heap[e])
                         /\ heap[e].is_interactive = <<TRUE>>
                /\ (heap[e].tag = "html" /\ DOMAIN heap[e].attributes = {})
                      => /\ ~is_interactive_element(heap[e])
                         /\ heap[e].is_interactive = <<FALSE>>

\* a bare element is interactive by its cursor alone, the root is not
C18_Witness ==
    /\ Built
    /\ heap[outcome.root[1]].kind = "element"
    /\ heap[outcome.root[1]].tag = "html"
    /\ Style(heap[outcome.root[1]], "cursor") = "pointer"
    /\ heap[outcome.root[1]].is_interactive = <<FALSE>>
    /\ \E e \in TreeElements :
          /\ DOMAIN heap[e].attributes = {}
          /\ heap[e].tag \notin INTERACTIVE_TAGS
          /\ Style(heap[e], "cursor") = "pointer"
          /\ heap[e].is_interactive = <<TRUE>>

(***************************************************************************)
(* C19: an element with an inherently interactive tag that the cursor,     *)
(* valid-link and tabindex rules have not accepted is decided by the tag   *)
(* rule: false when its cursor is a non-interactive one or it carries      *)
(* disabled or readonly with value "" or "true", whatever later rules      *)
(* would say, and true otherwise.  The element has passed the              *)
(* pointer-events gate, which stands before all of these rules.            *)
(***************************************************************************)
ReachesTagRule(e) ==
    /\ e.kind = "element"
    /\ e.tag \in {"a", "button", "input", "select", "textarea", "details",
                  "summary", "label", "option", "optgroup", "fieldset",
                  "legend"}
    /\ Style(e, "pointer-events") # "none"
    /\ ~_has_interactive_cursor(e)
    /\ ~_is_valid_link(e)
    /\ ~_has_valid_tabindex(e)

RejectedAsStated(e) ==
    \/ Style(e, "cursor") \in {"not-allowed", "no-drop", "wait", "progress",
                               "initial", "inherit"}
    \/ \E a \in {"disabled", "readonly"} :
          a \in DOMAIN e.attributes /\ e.attributes[a] \in {"", "true"}

EmptyHrefAnchor(e) ==
    /\ e.kind = "element"
    /\ e.tag = "a"
    /\ "href" \in DOMAIN e.attributes
    /\ e.attributes["href"] \in {"#", "", "javascript:void(0)", "javascript:;"}

OtherRuleFires(e) ==
    \/ _has_interactive_cursor(e)
    \/ _has_valid_tabindex(e)
    \/ ~RejectedAsStated(e)
    \/ interactive_late_rules(e)

C20_EmptyHrefIsNoLink ==
    /\ \A n \in 1..Len(heap) :
          EmptyHrefAnchor(heap[n])
              => /\ ~_is_valid_link(heap[n])
                 /\ ~OtherRuleFires(heap[n])
                       => ~is_interactive_element(heap[n])
    /\ (pc = "done" /\ EmptyHrefAnchor(Unit) /\ ~OtherRuleFires(Unit))
          => Unit.is_interactive = <<FALSE>>

\* a disabled anchor to "#", with an ordinary cursor
C20_Witness ==
    /\ pc = "done"
    /\ EmptyHrefAnchor(Unit)
    /\ Unit.attributes["href"] = "#"
    /\ ~OtherRuleFires(Unit)
    /\ Style(Unit, "cursor") = "default"
    /\ Style(Unit, "pointer-events") = "auto"
    /\ Unit.is_interactive = <<FALSE>>

(***************************************************************************)
(* C29: when a style vector is decoded, an entry that is not a position    *)
(* of the string table (negative, or at or past its length) sets no        *)
(* computed style for the property of its position, entries past the list  *)
(* of style names are ignored, and a property that is set holds the        *)
(* string-table entry its own value points at.                             *)
(***************************************************************************)
ValidPosition(v, strings) == v >= 0 /\ v < Len(strings)

C29_InvalidEntriesSetNothing ==
    snapshot # <<>> =>
        LET strings == snapshot[1].result.strings
        IN  /\ DOMAIN Unit.computed_styles \subseteq
                  {USEFUL_COMPUTED_STYLES[i] :
                      i \in NamedPositions(DecodedVector)}
            /\ \A i \in NamedPositions(DecodedVector) :
                  LET v == DecodedVector[i]
                      set == Style(Unit, USEFUL_COMPUTED_STYLES[i])
                  IN  /\ ~ValidPosition(v, strings) => set = Absent
                      /\ set # Absent => set = strings[v + 1]

(***************************************************************************)
(* C30: after any number of enrichment passes, an element whose is_visible *)
(* flag is true has a bounding_box with width > 0 and height > 0, its      *)
(* stored computed display is not "none" and its stored computed           *)
(* visibility is not "hidden".                                             *)
(***************************************************************************)
C30_VisibleFlagMatchesStoredData ==
    \A e \in TreeElements :
        heap[e].is_visible = <<TRUE>> =>
            /\ heap[e].bounding_box # <<>>
            /\ heap[e].bounding_box[1].width > 0
            /\ heap[e].bounding_box[1].height > 0
            /\ Style(heap[e], "display") # "none"
            /\ Style(heap[e], "visibility") # "hidden"

\* an element made visible by one pass is still visible after a later pass
\* whose answer carried an undecodable style vector and a short rectangle
C30_Witness ==
    /\ passes = 2
    /\ ~snapshot[1].raised
    /\ snapshot[1].result.documents # <<>>
    /\ snapshot[1].result.documents[1].layout.bounds[1] = <<0, 0, 10>>
    /\ snapshot[1].result.documents[1].layout.styles[1] = <<-9, 1>>
    /\ \E e \in TreeElements :
          /\ heap[e].is_visible = <<TRUE>>
          /\ heap[e].bounding_box[1].width = 10

(***************************************************************************)
(* C27: after a build in which the snapshot request of every frame of the  *)
(* tree succeeded and listed all the element nodes of that frame, every    *)
(* element of the tree, iframe elements included, has is_visible and       *)
(* is_interactive set, each to the classifier's result on the element's    *)
(* final styles and layout data.  Element nodes of one frame are told      *)
(* apart by their backend ids, as the browser numbers them.                *)
(***************************************************************************)
ListedBy(answer, e) ==
    \E d \in 1..Len(answer.result.documents) :
        LET nodes == answer.result.documents[d].nodes
        IN  \E i \in 1..Len(nodes.backendNodeId) :
                /\ nodes.backendNodeId[i] = heap[e].backend_node_id
                /\ i <= Len(nodes.nodeType)
                /\ nodes.nodeType[i] = ELEMENT

EverySnapshotSucceeded ==
    /\ Built
    /\ heap[outcome.root[1]].kind = "element"
    /\ snapshot # <<>>
    /\ ~snapshot[1].raised
    /\ \A e \in TreeElements :
          /\ heap[e].frame_url = MainKey
          /\ ListedBy(snapshot[1], e)
          /\ \A o \in TreeElements \ {e} :
                heap[o].backend_node_id # heap[e].backend_node_id

FailedResolutions(key) ==
    {i \in Logged({"playwright", "no_session", "lazy_session"}) :
        log[i].url = key}

OpenedSessions(key) == {u \in DOMAIN sessions : sessions[u].frame = key}

C23_OneResolutionPerFrame ==
    (Built /\ passes = 0) =>
        \A key \in {log[i].url : i \in 1..Len(log)} \cup DOMAIN sessions :
            Cardinality(FailedResolutions(key))
                + Cardinality(OpenedSessions(key)) <= 1

(***************************************************************************)
(* Readers of the two LLM formats: the pipe-separated lines of the CSV     *)
(* text and the objects of the JSON text.                                  *)
(***************************************************************************)
\* s.split(sep) for a one-character separator
Split(s, sep) ==
    LET at == {i \in 1..Len(s) : s[i] = sep}
        cut(k) == IF k = 0 THEN 0
                  ELSE IF k > Cardinality(at) THEN Len(s) + 1
                  ELSE CHOOSE i \in at : Cardinality({j \in at : j < i}) = k - 1
    IN  [k \in 1..(Cardinality(at) + 1) |->
            SubSeq(s, cut(k - 1) + 1, cut(k) - 1)]

\* the data records of a CSV text: its lines after the header line, each
\* split into its fields
CsvRecords(text) ==
    LET lines == Tail(Split(text, "\n"))
    IN  [i \in 1..Len(lines) |-> Split(lines[i], "|")]

Unescaped(c) == CASE c = "n" -> "\n" [] c = "t" -> "\t" [] OTHER -> c

\* the JSON string whose opening quote is before position i
RECURSIVE ReadString(_, _, _)
ReadString(q, i, acc) ==
    IF q[i] = "\"" THEN [value |-> JsonStr(acc), next |-> i + 1]
    ELSE IF q[i] = "\\"
         THEN ReadString(q, i + 2, Append(acc, Unescaped(q[i + 1])))
    ELSE ReadString(q, i + 1, Append(acc, q[i]))

RECURSIVE ReadNumber(_, _, _)
ReadNumber(q, i, acc) ==
    IF i <= Len(q) /\ q[i] \in {Digits[d] : d \in DOMAIN Digits}
    THEN ReadNumber(q, i + 1, 10 * acc + DigitValue(q[i]))
    ELSE [value |-> JsonInt(acc), next |-> i]

ReadValue(q, i) ==
    IF q[i] = "\"" THEN ReadString(q, i + 1, <<>>)
    ELSE IF q[i] = "t" THEN [value |-> JsonTrue, next |-> i + 4]
    ELSE ReadNumber(q, i, 0)

\* the items of the object whose opening brace is before position i
RECURSIVE ReadItems(_, _, _)
ReadItems(q, i, acc) ==
    IF q[i] = "}" THEN [value |-> acc, next |-> i + 1]
    ELSE IF q[i] = "," THEN ReadItems(q, i + 1, acc)
    ELSE LET key == ReadString(q, i + 1, <<>>)
             val == ReadValue(q, key.next + 1)
         IN  ReadItems(q, val.next, Append(acc, <<key.value.str, val.value>>))

\* the objects of the array whose opening bracket is before position i
RECURSIVE ReadObjects(_, _, _)
ReadObjects(q, i, acc) ==
    IF q[i] = "]" THEN acc
    ELSE IF q[i] = "," THEN ReadObjects(q, i + 1, acc)
    ELSE LET object == ReadItems(q, i + 1, <<>>)
         IN  ReadObjects(q, object.next, Append(acc, object.value))

\* the nodes of {"n":[...]}
JsonNodes(text) == ReadObjects(text, 7, <<>>)

HasKey(items, key) == \E i \in 1..Len(items) : items[i][1] = Chars(key)

Field(items, key) ==
    items[CHOOSE i \in 1..Len(items) : items[i][1] = Chars(key)][2]

\* C21: the CSV translation has exactly one data record per element and the
\* JSON translation exactly one node per element, in the order of the
\* element list, and the i-th record and the i-th node agree on node id,
\* backend id, tag and interactive flag
C21_CsvAndJsonAgree ==
    pc = "csv" =>
        LET records == CsvRecords(llm[1].csv)
            nodes == JsonNodes(llm[1].json)
            elements == llm[1].elements
        IN  /\ Len(records) = Len(elements)
            /\ Len(nodes) = Len(elements)
            /\ \A i \in 1..Len(elements) :
                  /\ Len(records[i]) = 8
                  /\ Field(nodes[i], "nid").int = heap[elements[i]].node_id
                  /\ records[i][1] = str_int(Field(nodes[i], "nid").int)
                  /\ records[i][2] = str_int(Field(nodes[i], "bid").int)
                  /\ records[i][4] = Field(nodes[i], "t").str
                  /\ records[i][7] = (IF HasKey(nodes[i], "int")
                                      THEN <<"1">> ELSE <<"0">>)

\* the JSON translation alone is as the claim says: one node per element,
\* in order, carrying the element's own ids, tag and flag
C21_JsonMatchesElements ==
    pc \in {"json", "csv"} =>
        LET nodes == JsonNodes(llm[1].json)
            elements == llm[1].elements
        IN  /\ Len(nodes) = Len(elements)
            /\ \A i \in 1..Len(elements) :
                  /\ Field(nodes[i], "nid").int = heap[elements[i]].node_id
                  /\ Field(nodes[i], "bid").int
                         = heap[elements[i]].backend_node_id
                  /\ Field(nodes[i], "t").str = Chars(heap[elements[i]].tag)
                  /\ HasKey(nodes[i], "int")
                         <=> heap[elements[i]].is_interactive = <<TRUE>>
                  /\ HasKey(nodes[i], "aria") =>
                         Field(nodes[i], "aria").str
                             = Chars(heap[elements[i]].attributes["aria-label"])

\* elements without "|" or a line break in their aria-label are translated
\* as the claim says
PlainLabels ==
    \A i \in 1..Len(llm[1].elements) :
        LET label == Chars(DictGet(heap[llm[1].elements[i]].attributes,
                                   "aria-label", ""))
        IN  \A k \in 1..Len(label) : label[k] \notin {"|", "\n"}

C21_PlainLabelsAgree == (pc = "csv" /\ PlainLabels) => C21_CsvAndJsonAgree

\* C22: when the overall timeout fires during get_dom_tree, no partial tree
\* is cached: dom_tree is unset after the call has raised TimeoutError, so
\* that the next get_dom_tree starts a fresh build
C22_TimeoutLeavesNoTree ==
    (pc = "idle" /\ fetched.error = "TimeoutError") => dom_tree = <<>>

\* a timeout that strikes before the tree is assigned leaves none
C22_EarlyTimeoutLeavesNoTree ==
    (pc = "idle" /\ fetched.error = "TimeoutError"
        /\ fetched.at \in {"getTargets", "getDocument", "iframe"})
    => dom_tree = <<>>

\* C28: a tree returned by get_dom_tree was built from the service's current
\* page; in particular the first get_dom_tree after a set_page that opened
\* its session returns a tree built from the new page
C28_TreeIsOfCurrentPage ==
    (pc = "idle" /\ fetched.status = "returned" /\ page = self_page)
    => tree_page = <<self_page>>

\* the calls of _process_iframe_content that passed the guards and have not
\* finished
ActiveCalls == IF pc = "iframe" THEN suspended[1].active ELSE 0

\* C26: the iframe depth counter stays within 0..3, equals the number of
\* _process_iframe_content calls in progress, is restored on every exit
\* (the inner failure, the skip, the cancellation by the overall timeout)
\* and is 0 whenever no build is running
C26_DepthCounter ==
    /\ iframe_depth \in 0..max_iframe_depth
    /\ iframe_depth = ActiveCalls
    /\ pc = "idle" => iframe_depth = 0

\* the overall timeout struck while a frame resolution was waiting
C26_Witness ==
    /\ pc = "idle"
    /\ fetched.error = "TimeoutError"
    /\ fetched.at = "iframe"
    /\ processed_frames # {}
    /\ iframe_depth = 0

\* a build is waiting inside its second frame resolution
C26_WaitingWitness ==
    /\ pc = "iframe"
    /\ suspended[1].k = 2
    /\ iframe_depth = 1

\* what a caller can see of the tree at n: its nodes, in order, with the data
\* that enrichment attached to them
RECURSIVE Content(_, _)
Content(h, n) ==
    IF h[n].kind = "text" THEN <<"text", h[n].backend_node_id, h[n].text>>
    ELSE <<"element", h[n].backend_node_id, h[n].tag, h[n].computed_styles,
           h[n].bounding_box, h[n].is_visible, h[n].is_interactive,
           [i \in 1..Len(h[n].children) |-> Content(h, h[n].children[i])]>>

\* C24: overlapping build_dom_tree invocations each return the tree they
\* would return alone, that is the tree the invocation itself built and
\* enriched
C24_EachReturnsItsOwnTree ==
    \A c \in Coroutines :
        co # <<>> /\ co[c].outcome.status = "returned" =>
            Content(heap, co[c].outcome.root[1])
                = Content(heap, co[c].root[1])

\* C24, second half: while one invocation is in progress, no step of the
\* other one clears or modifies the visited-frame set, the processed-iframe
\* set, the depth counter or the session caches
C24_NoForeignChange ==
    [][\A c \in Coroutines :
          (co # <<>> /\ co[c].pc \in {"getTargets", "getDocument", "snapshot"}
              /\ co'[c] = co[c])
          => UNCHANGED <<processed_frames, processed_iframe_nodes, sessions,
                         session_frame_urls, iframe_depth>>]_vars

C25_ResolutionsBounded ==
    pc = "iframe" =>
        /\ suspended[1].active <= max_iframe_depth
        /\ suspended[1].k <= Cardinality(processed_frames)

====
